---- MODULE Spec2Model ----
(***************************************************************************)
(* Model of the tycho mempool DAG engine: the round ledger (DagRound), the *)
(* two-phase Verifier and the memoized per-location validation tasks.      *)
(*                                                                         *)
(* Points are records; a point id is (round, author, digest).  The digest  *)
(* is a content hash, so one id names at most one body.                    *)
(***************************************************************************)
EXTENDS Integers, FiniteSets, Sequences, TLC

\* ------------------------------------------------------------------ bounds
MaxRound == 3
NumDigests == 2
MaxTime == 1
MaxCallers == 3
MaxBlobs == 4       \* payloads the externals channel delivers in a run

\* --------------------------------------------------------- program values
GENESIS_ROUND == 0
WAVE_SIZE == 4
DAG_DEPTH == 2       \* the retention depth, scaled down to the rounds modelled

Rounds == GENESIS_ROUND..MaxRound
Digests == 1..NumDigests
Times == 0..MaxTime
AllPeers == {1, 2, 3, 4}

\* PeerSchedule::peers_for: the committee of a round (one genesis author)
PeersFor(r) == IF r < GENESIS_ROUND THEN {} ELSE IF r = GENESIS_ROUND THEN {1} ELSE AllPeers

\* NodeCount: committee = 3f+1
NodeCountF(n) == (n - 1) \div 3
Majority(n) == 2 * NodeCountF(n) + 1
MajorityOfOthers(n) == 2 * NodeCountF(n)

\* AnchorStage::of: None | Proof{leader} | Trigger{leader}, fixed per round
LeaderOfWave(r) == ((r \div WAVE_SIZE) % Cardinality(AllPeers)) + 1
AnchorStageOf(r) ==
    LET ldr == LeaderOfWave(r) IN
    IF ldr \notin PeersFor(r) THEN [kind |-> "None", leader |-> 0]
    ELSE IF r % WAVE_SIZE = 1 THEN [kind |-> "Proof", leader |-> ldr]
    ELSE IF r % WAVE_SIZE = 2 THEN [kind |-> "Trigger", leader |-> ldr]
    ELSE [kind |-> "None", leader |-> 0]

\* ------------------------------------------------------------- point model
Prev(r) == r - 1

NoId == [round |-> -1, author |-> 0, digest |-> 0]
MkId(r, a, d) == [round |-> r, author |-> a, digest |-> d]
AllIds == {MkId(r, a, d) : r \in Rounds, a \in AllPeers, d \in Digests}

\* Link::ToSelf | Link::Direct(Through) | Link::Indirect{to, path: Through}
ToSelf == [kind |-> "ToSelf", through |-> "None", peer |-> 0, to |-> NoId]
Direct(through, peer) == [kind |-> "Direct", through |-> through, peer |-> peer, to |-> NoId]
Indirect(to, through, peer) == [kind |-> "Indirect", through |-> through, peer |-> peer, to |-> to]

NoProof == [some |-> FALSE, digest |-> 0, evidence |-> {}, sigs_ok |-> TRUE]
Proof(d, ev, ok) == [some |-> TRUE, digest |-> d, evidence |-> ev, sigs_ok |-> ok]

\* includes / witness: peer -> digest, 0 where the peer has no entry
NoMap == [a \in AllPeers |-> 0]
Keys(m) == {a \in AllPeers : m[a] # 0}

\* Point::id
Id(p) == MkId(p.round, p.author, p.digest)
Location(id) == [round |-> id.round, author |-> id.author]

\* Point::anchor_link
anchor_link(p, field) == IF field = "Proof" THEN p.anchor_proof ELSE p.anchor_trigger

\* Point::anchor_round
anchor_round(p, field) ==
    LET l == anchor_link(p, field) IN
    IF l.kind = "ToSelf" THEN p.round
    ELSE IF l.kind = "Direct"
         THEN (IF l.through = "Includes" THEN Prev(p.round) ELSE Prev(Prev(p.round)))
    ELSE l.to.round

\* Point::anchor_link_id: the next point on the path from p to its anchor
anchor_link_id(p, field) ==
    LET l == anchor_link(p, field) IN
    IF l.kind = "ToSelf" THEN Id(p)
    ELSE IF l.through = "Includes" THEN MkId(Prev(p.round), l.peer, p.includes[l.peer])
    ELSE MkId(Prev(Prev(p.round)), l.peer, p.witness[l.peer])

\* Point::anchor_id: the final destination of an anchor link
anchor_id(p, field) ==
    LET l == anchor_link(p, field) IN
    IF l.kind = "Indirect" THEN l.to ELSE anchor_link_id(p, field)

\* Point::is_link_well_formed
is_link_well_formed(p, field) ==
    LET l == anchor_link(p, field) IN
    CASE l.kind = "ToSelf" -> TRUE
      [] l.kind = "Direct" /\ l.through = "Includes" -> l.peer \in Keys(p.includes)
      [] l.kind = "Direct" /\ l.through = "Witness" -> l.peer \in Keys(p.witness)
      [] l.kind = "Indirect" /\ l.through = "Includes" ->
            l.peer \in Keys(p.includes) /\ l.to.round + 1 < p.round
      [] l.kind = "Indirect" /\ l.through = "Witness" ->
            l.peer \in Keys(p.witness) /\ l.to.round + 2 < p.round
      [] OTHER -> FALSE

\* Point::is_well_formed
is_well_formed(p) ==
    LET special ==
            IF p.round = GENESIS_ROUND
            THEN /\ Keys(p.includes) = {}
                 /\ Keys(p.witness) = {}
                 /\ ~p.proof.some
                 /\ p.anchor_proof = ToSelf
                 /\ p.anchor_trigger = ToSelf
            ELSE /\ p.round > GENESIS_ROUND
                 /\ (p.round > GENESIS_ROUND + 1 \/ Keys(p.witness) = {})
                 /\ ~(p.anchor_proof = ToSelf /\ ~p.proof.some)
                 /\ ~(p.anchor_trigger = ToSelf /\ ~p.proof.some)
        x == anchor_round(p, "Proof")
        y == anchor_round(p, "Trigger")
    IN  /\ special
        \* proof is listed in includes, and only there
        /\ (IF p.proof.some THEN p.proof.digest ELSE 0) = p.includes[p.author]
        /\ (p.proof.some => p.author \notin p.proof.evidence)
        /\ is_link_well_formed(p, "Proof")
        /\ is_link_well_formed(p, "Trigger")
        /\ IF x = GENESIS_ROUND \/ y = GENESIS_ROUND
           THEN x >= GENESIS_ROUND /\ y >= GENESIS_ROUND
           ELSE x # y /\ x > GENESIS_ROUND /\ y > GENESIS_ROUND

\* ------------------------------------------------------- the network's points
Pt(r, a, d, time, atime, proof, inc, wit, ap, at) ==
    [round |-> r, author |-> a, digest |-> d, time |-> time, anchor_time |-> atime,
     proof |-> proof, includes |-> inc, witness |-> wit,
     anchor_proof |-> ap, anchor_trigger |-> at, integrity |-> TRUE]

MapOf(S, d) == [a \in AllPeers |-> IF a \in S THEN d ELSE 0]
Others(a) == IF a = 1 THEN {2, 3} ELSE IF a = 2 THEN {1, 3} ELSE {1, 2}

GenesisId == MkId(GENESIS_ROUND, 1, 1)
Genesis == Pt(GENESIS_ROUND, 1, 1, MaxTime, MaxTime, NoProof, NoMap, NoMap, ToSelf, ToSelf)

\* the points of a run in which the peers follow the protocol (leader 1)
Honest1(a) ==
    Pt(1, a, 1, MaxTime, MaxTime,
       IF a = 1 THEN Proof(1, Others(a), TRUE) ELSE NoProof,
       MapOf({1}, 1), NoMap,
       IF a = 1 THEN ToSelf ELSE Direct("Includes", 1),
       Direct("Includes", 1))

Honest2(a) ==
    Pt(2, a, 1, MaxTime, MaxTime, Proof(1, Others(a), TRUE), MapOf({1, 2, 3}, 1), NoMap,
       Direct("Includes", 1),
       IF a = 1 THEN ToSelf ELSE Indirect(GenesisId, "Includes", a))

Honest3(a) ==
    Pt(3, a, 1, MaxTime, MaxTime, Proof(1, Others(a), TRUE), MapOf({1, 2, 3}, 1), NoMap,
       Indirect(MkId(1, 1, 1), "Includes", a),
       Direct("Includes", 1))

Base == {Genesis, Honest1(1), Honest1(2), Honest1(3)}

\* a full run up to round 3
HonestWorld == Base \cup {Honest2(a) : a \in {1, 2, 3}} \cup {Honest3(2)}

\* a second genesis-round point, a round-1 point anchored to it, and round-2
\* points whose trigger path runs through peer 2 (to Genesis) or peer 3 (astray)
Genesis2 == [Genesis EXCEPT !.digest = 2]
Astray3 == [Honest1(3) EXCEPT !.includes = MapOf({1}, 2)]
PathBad == [Honest2(2) EXCEPT !.digest = 2,
                              !.anchor_trigger = Indirect(GenesisId, "Includes", 3)]
PathWorld == {Genesis, Genesis2, Honest1(1), Honest1(2), Astray3, Honest2(2), PathBad}

\* peer 2 equivocates at round 1, its round-2 point proves digest 1; a round-2
\* point older than the point it proves; a proof with a bad signature
Twin2 == [Honest1(2) EXCEPT !.digest = 2]
Early2 == [Honest2(2) EXCEPT !.digest = 2, !.time = 0]
BadSigs2 == [Honest2(2) EXCEPT !.digest = 2, !.proof = Proof(1, Others(2), FALSE)]
EquivWorld == Base \cup {Twin2, Honest2(2)}
EarlyWorld == Base \cup {Early2}

\* the leader's first point is older than genesis; a proof with a bad signature
EarlyLeader == [Honest1(1) EXCEPT !.digest = 2, !.time = 0]
TimeWorld == Base \cup {EarlyLeader, BadSigs2}

\* peer 4 leaves out the proof of its own round-1 points, one of them invalid
NoProof4 == Pt(2, 4, 1, MaxTime, MaxTime, NoProof, MapOf({1, 2, 3}, 1), NoMap,
               Direct("Includes", 1), Indirect(GenesisId, "Includes", 1))
Ill4 == [Honest1(4) EXCEPT !.digest = 2, !.includes = MapOf({1}, 2)]
NoProofWorld == Base \cup {Honest1(4), NoProof4}
IllNoProofWorld == Base \cup {Ill4, NoProof4}

\* peer 2 has a second, invalid round-1 point (it includes a point nobody has);
\* peer 3 includes it
Ill2 == [Honest1(2) EXCEPT !.digest = 2, !.includes = MapOf({1}, 2)]
Picky3 == [Honest2(3) EXCEPT !.includes = [MapOf({1, 2, 3}, 1) EXCEPT ![2] = 2]]
BadWorld == Base \cup {Ill2, Picky3}
EquivBadWorld == Base \cup {Ill2, Honest2(2)}

\* peer 3 includes a round-1 point of peer 2 that nobody has
MissingWorld == Base \cup {Honest2(2), Picky3}

\* peer 2 proves its second round-1 point, which is invalid or which nobody has
Proves2 == [Honest2(2) EXCEPT !.digest = 2,
                              !.proof = Proof(2, Others(2), TRUE),
                              !.includes = [MapOf({1, 2, 3}, 1) EXCEPT ![2] = 2]]
ProvenBadWorld == {Genesis, Honest1(1), Honest1(3), Ill2, Proves2}
ProvenMissingWorld == {Genesis, Honest1(1), Honest1(3), Proves2}

\* a round-2 point that links its anchor proof past the leader's round-1 point
Stale2 == [Honest2(2) EXCEPT !.witness = MapOf({1}, 1),
                             !.anchor_proof = Direct("Witness", 1)]
StaleWorld == Base \cup {Stale2, Honest2(3)}

\* a round-2 point whose anchor trigger is a witnessed genesis-round point
\* that nobody has
WitBad2 == [Honest2(2) EXCEPT !.witness = MapOf({1}, 2),
                              !.anchor_trigger = Direct("Witness", 1)]
WitnessWorld == Base \cup {WitBad2}

\* self links: a non-leader using ToSelf, a leader not using it
SelfTrigger2 == [Honest2(2) EXCEPT !.anchor_trigger = ToSelf]
SelfProof3 == [Honest2(3) EXCEPT !.anchor_proof = ToSelf]
NoSelfLeader2 == [Honest2(1) EXCEPT !.anchor_trigger = Indirect(GenesisId, "Includes", 1)]
NoSelfLeader1 == [Honest1(1) EXCEPT !.digest = 2, !.anchor_proof = Direct("Includes", 1)]
SelfWorld == Base \cup {SelfTrigger2, SelfProof3, NoSelfLeader2, NoSelfLeader1}

Worlds == <<HonestWorld, PathWorld, EquivWorld, EarlyWorld, TimeWorld, NoProofWorld,
            IllNoProofWorld, BadWorld, EquivBadWorld, MissingWorld, StaleWorld, SelfWorld,
            ProvenBadWorld, ProvenMissingWorld, WitnessWorld>>
Bodies == [n \in DOMAIN Worlds |->
             [i \in {Id(p) : p \in Worlds[n]} |-> CHOOSE p \in Worlds[n] : Id(p) = i]]

\* ------------------------------------------------------------------ state
VARIABLES
    net,        \* which set of point bodies exists in the network (at most one per id)
    bottom,     \* the oldest DAG round that is still retained
    top,        \* the newest DAG round
    tasks,      \* DagLocation versions: id -> the memoized validation task
    \* one DagLocation under concurrent callers
    lock,       \* the caller inside DagRound::edit (0: nobody)
    versions,   \* loc.versions: digest -> the future stored (0: vacant)
    spawned,    \* digest -> validation/download tasks created so far
    futures,    \* <<digest, n>> -> state of the n-th task created for the digest
    pc,         \* caller -> "idle" | "edit" | "entry" | "returned"
    call,       \* caller -> [op, key, vacant] of its call (the key stays on return)
    handle,     \* caller -> the future its call returned (0: none)
    \* BroadcastFilterInner
    current_dag_round,  \* the gate's local round
    last_by_peer,       \* peer -> the highest future round it has broadcast (0: no entry)
    by_round,           \* the buffered events [round, author, digest, class], one per id
    output,             \* what the latest call sent to the channel, in the order
                        \* sent (the consumer drains it)
    listening,          \* clean_cache still waits for its one peer schedule update
    \* what the callers of the gate have seen
    last,               \* the latest add: its point, the class verify gave it, the response
    validAt,            \* <<round, author>> of the verified points handed to add at
                        \* rounds that are still ahead of the gate
    hi,                 \* peer -> the highest round it handed to add since the peer
                        \* schedule last reported it Unknown (0: none)
    verdicts,           \* what Verifier::verify returned before the gate saw any point
    \* one call of Verifier::verify
    probe,              \* the point it is called with
    verdict,            \* what it returned ("none" before the call)
    \* InputBufferData and its two users
    data,               \* the buffered payloads, oldest first
    data_bytes,         \* the byte count the buffer keeps of them
    offset_elements,    \* how many payloads at the front the latest fetch returned
    panicked,           \* which of the tasks "consume" and "engine" have panicked
    received,           \* how many payloads the externals channel has delivered
    lastop,             \* the latest call: [op, only_fresh], and the op before it
    fetched,            \* the batch the latest fetch returned
    \* a chain of DagRound built by new_bottom and new_next, and its handles
    created,            \* the rounds DagRound::new has built
    owned,              \* the rounds some caller holds a DagRound (strong) handle of
    alive,              \* the rounds that are still allocated
    validating,         \* a call of Verifier::validate: [round, st]
    scanned,            \* the latest DagRound::scan: [from, round, res]
    loaded,             \* caller -> the add that has loaded current_dag_round and
                        \* not gone further: [point, dag_round] (0: none)
    \* one call of Producer::new_point
    producing,          \* what it is called with and what the local DAG holds
    produced,           \* its outcome ("pending" before the call)
    \* PrivateOverlayEntries
    entries,            \* [peer_id_to_index, data, resolved_peers]
    returned            \* the latest call: [op, peer, had, ret]

dag == <<net, bottom, top, tasks>>
loc == <<lock, versions, spawned, futures, pc, call, handle>>
gate == <<current_dag_round, last_by_peer, by_round, output, listening,
          last, validAt, hi, verdicts, loaded>>
ver == <<probe, verdict>>
inp == <<data, data_bytes, offset_elements, panicked, received, lastop, fetched>>
chain == <<created, owned, alive, validating, scanned>>
prod == <<producing, produced>>
ovl == <<entries, returned>>
vars == <<dag, loc, gate, ver, inp, chain, prod, ovl>>

\* a task: its state or verdict, what validate found when it gathered the
\* dependencies (the digests at its author's previous location, whether the
\* witnessed points were pushed), and where validation left off:
\* "verify" | "links" | "pruned" | "deps", "" while there is no verdict source
Task(st, own, wit, via) == [st |-> st, own |-> own, wit |-> wit, via |-> via]
NoTask == Task("none", {}, FALSE, "")
Resolved == {"Trusted", "Suspicious", "Invalid", "NotExists"}
Valid == {"Trusted", "Suspicious"}

\* the bodies that exist, and the body that goes with an id (content addressing)
World == Worlds[net]
HasBody(id) == id \in DOMAIN Bodies[net]
BodyOf(id) == Bodies[net][id]

\* a strong handle to the round can still be obtained (WeakDagRound::get)
Alive(r) == bottom <= r /\ r <= top

\* ---------------------------------------------------------------- verifier
\* Verifier::is_list_of_signers_ok
is_list_of_signers_okAnyWitness(p) ==
    IF p.round = GENESIS_ROUND THEN TRUE
    ELSE LET includes_peers == PeersFor(Prev(p.round))
             proof_peers == PeersFor(p.round)
         IN  /\ Cardinality(Keys(p.includes)) >= Majority(Cardinality(includes_peers))
             /\ Keys(p.includes) \subseteq includes_peers
             /\ (p.proof.some =>
                    /\ Cardinality(proof_peers) >= 1
                    /\ Cardinality(p.proof.evidence) >= MajorityOfOthers(Cardinality(proof_peers))
                    /\ p.proof.evidence \subseteq proof_peers)

is_list_of_signers_ok(p) ==
    IF p.round = GENESIS_ROUND THEN TRUE
    ELSE LET witness_peers == PeersFor(Prev(Prev(p.round)))
             includes_peers == PeersFor(Prev(p.round))
             proof_peers == PeersFor(p.round)
         IN  /\ Keys(p.witness) \subseteq witness_peers
             /\ Cardinality(Keys(p.includes)) >= Majority(Cardinality(includes_peers))
             /\ Keys(p.includes) \subseteq includes_peers
             /\ (p.proof.some =>
                    /\ Cardinality(proof_peers) >= 1
                    /\ Cardinality(p.proof.evidence) >= MajorityOfOthers(Cardinality(proof_peers))
                    /\ p.proof.evidence \subseteq proof_peers)

verifyFormFirst(p) ==
    IF ~(is_well_formed(p) /\ is_list_of_signers_ok(p)) THEN "Invalid"
    ELSE IF ~p.integrity THEN "NotExists"
    ELSE "Ok"

\* Verifier::verify: "Ok" | "Invalid" | "NotExists"
verify(p) ==
    IF ~p.integrity THEN "NotExists"
    ELSE IF ~(is_well_formed(p) /\ is_list_of_signers_ok(p)) THEN "Invalid"
    ELSE "Ok"

\* Verifier::is_self_links_ok
is_self_links_okBadLeader(p) ==
    LET stage == AnchorStageOf(p.round) IN
    CASE stage.kind = "None" ->
            \/ (p.anchor_proof # ToSelf /\ p.anchor_trigger # ToSelf)
            \/ p.round = GENESIS_ROUND
      [] stage.kind = "Proof" -> (p.anchor_proof = ToSelf) => (stage.leader = p.author)
      [] stage.kind = "Trigger" -> (p.anchor_trigger = ToSelf) => (stage.leader = p.author)

is_self_links_ok(p) ==
    LET stage == AnchorStageOf(p.round) IN
    CASE stage.kind = "None" ->
            \/ (p.anchor_proof # ToSelf /\ p.anchor_trigger # ToSelf)
            \/ p.round = GENESIS_ROUND
      [] stage.kind = "Proof" -> (stage.leader = p.author) = (p.anchor_proof = ToSelf)
      [] stage.kind = "Trigger" -> (stage.leader = p.author) = (p.anchor_trigger = ToSelf)

\* DagRound::scan from the round `from`, `live` being the rounds whose
\* WeakDagRound upgrades: "Some" | "None" | "PanicFuture" | "PanicGap"
RECURSIVE ScanWalkSkipping(_, _, _)
ScanWalkSkipping(live, visited, round) ==
    IF Prev(visited) < round THEN "None"
    ELSE IF Prev(visited) = round THEN (IF round \in live THEN "Some" ELSE "None")
    ELSE ScanWalkSkipping(live, Prev(visited), round)

RECURSIVE ScanWalk(_, _, _)
ScanWalk(live, visited, round) ==
    IF Prev(visited) \notin live THEN "None"          \* visited.prev() is dead
    ELSE IF Prev(visited) < round THEN "PanicGap"
    ELSE IF Prev(visited) = round THEN "Some"
    ELSE ScanWalk(live, Prev(visited), round)

scan_from(live, from, round) ==
    IF ~(round <= from) THEN "PanicFuture"
    ELSE IF from = round THEN "Some"
    ELSE ScanWalk(live, from, round)

\* the scan of the owner's chain, whose rounds bottom..top are retained
scan(from, round) == scan_from(bottom..top, from, round)

\* Verifier::add_anchor_link_if_ok: [res: "ok" | "false" | "panic", dep: ids pushed]
add_anchor_link_if_ok(p, field) ==
    LET point_id == anchor_id(p, field)
        found == scan(p.round, point_id.round)
        stage == AnchorStageOf(point_id.round)
    IN  IF found # "Some" THEN [res |-> "panic", dep |-> {}]
        ELSE IF point_id.round = GENESIS_ROUND THEN [res |-> "ok", dep |-> {}]
        ELSE IF ~(stage.kind = field /\ stage.leader = point_id.author)
             THEN [res |-> "false", dep |-> {}]
        ELSE IF point_id.round < p.round
             THEN (IF point_id.author \in PeersFor(point_id.round)
                   THEN [res |-> "ok", dep |-> {point_id}]
                   ELSE [res |-> "panic", dep |-> {}])      \* DagRound::edit
        ELSE [res |-> "ok", dep |-> {}]

\* Verifier::is_proof_ok (its coding-error panics cannot fire at the call site)
is_proof_okAnyTime(p, proven) ==
    p.proof.sigs_ok

is_proof_ok(p, proven) ==
    /\ ~(p.time < proven.time)
    /\ p.proof.sigs_ok

\* Verifier::check_deps, the point's own previous-round location
PrevLoc(p) == [round |-> Prev(p.round), author |-> p.author]

\* the turns of the loop of Verifier::check_deps over one resolved dependency;
\* each is TRUE when the turn returns DagPoint::Invalid.
\* A Trusted or Suspicious point at the previous location: the proof
ProofTurnLenient(p, valid) ==
    /\ Location(valid) = PrevLoc(p)
    /\ p.proof.some
    /\ valid.digest = p.proof.digest
    /\ ~is_proof_ok(p, valid)

ProofTurn(p, valid) ==
    /\ Location(valid) = PrevLoc(p)
    /\ IF p.proof.some
       THEN valid.digest = p.proof.digest /\ ~is_proof_ok(p, valid)
       ELSE TRUE

\* the dependency knows a newer anchor than the point
NotActualizedTriggerOnly(p, valid) ==
    anchor_round(valid, "Trigger") > anchor_id(p, "Trigger").round

NotActualized(p, valid) ==
    \/ anchor_round(valid, "Trigger") > anchor_id(p, "Trigger").round
    \/ anchor_round(valid, "Proof") > anchor_id(p, "Proof").round

\* the next point on a path does not lead to the point's anchor
PathAstrayByRound(p, valid) ==
    \/ /\ Id(valid) = anchor_link_id(p, "Trigger")
       /\ anchor_round(valid, "Trigger") # anchor_id(p, "Trigger").round
    \/ /\ Id(valid) = anchor_link_id(p, "Proof")
       /\ anchor_round(valid, "Proof") # anchor_id(p, "Proof").round

PathAstray(p, valid) ==
    \/ /\ Id(valid) = anchor_link_id(p, "Trigger")
       /\ anchor_id(valid, "Trigger") # anchor_id(p, "Trigger")
    \/ /\ Id(valid) = anchor_link_id(p, "Proof")
       /\ anchor_id(valid, "Proof") # anchor_id(p, "Proof")

\* the anchor time is not the one the anchor proof carries
AnchorTimeOff(p, valid) ==
    \/ /\ Id(p) = anchor_id(p, "Proof")
       /\ Location(valid) = PrevLoc(p)
       /\ p.anchor_time # valid.time
    \/ /\ Id(valid) = anchor_link_id(p, "Proof")
       /\ valid.anchor_time # p.anchor_time

\* an Invalid dependency
InvalidTurnOtherOnly(p, dep) ==
    Location(dep) # PrevLoc(p)

InvalidTurn(p, dep) ==
    IF Location(dep) = PrevLoc(p)
    THEN (p.proof.some => dep.digest = p.proof.digest)
    ELSE TRUE

\* a NotExists dependency
NotExistsTurnOwnOnly(p, dep) ==
    /\ Location(dep) = PrevLoc(p)
    /\ p.proof.some
    /\ dep.digest = p.proof.digest

NotExistsTurn(p, dep) ==
    IF Location(dep) = PrevLoc(p)
    THEN p.proof.some /\ dep.digest = p.proof.digest
    ELSE TRUE

\* one turn of the loop over the dependency dep that resolved to st
DepInvalidates(p, dep, st) ==
    CASE st \in Valid ->
            \/ ProofTurn(p, BodyOf(dep))
            \/ NotActualized(p, BodyOf(dep))
            \/ PathAstray(p, BodyOf(dep))
            \/ AnchorTimeOff(p, BodyOf(dep))
      [] st = "Invalid" -> InvalidTurn(p, dep)
      [] st = "NotExists" -> NotExistsTurn(p, dep)
      [] OTHER -> FALSE

\* the turn sets is_suspicious
DepEquivocatesValidOnly(p, dep, st) ==
    /\ st \in Valid
    /\ Location(dep) = PrevLoc(p)
    /\ p.proof.some
    /\ dep.digest # p.proof.digest

DepEquivocates(p, dep, st) ==
    /\ st \in Valid \cup {"Invalid"}
    /\ Location(dep) = PrevLoc(p)
    /\ p.proof.some
    /\ dep.digest # p.proof.digest

\* the dependencies pushed by the two calls of add_anchor_link_if_ok
AnchorDeps(p) ==
    {i \in {anchor_id(p, "Proof"), anchor_id(p, "Trigger")} :
        i.round # GENESIS_ROUND /\ i.round < p.round}

\* Verifier::gather_deps: the shared tasks pushed for a point at round r+0
OwnVersions(p) ==
    {d \in Digests : tasks[MkId(Prev(p.round), p.author, d)].st # "none"}

gather_deps(p, own, wit) ==
    LET r_1 == Prev(p.round)
        r_2 == Prev(r_1)
    IN  {MkId(r_1, p.author, d) : d \in own}
            \cup {MkId(r_1, a, p.includes[a]) : a \in Keys(p.includes)}
            \cup (IF wit THEN {MkId(r_2, a, p.witness[a]) : a \in Keys(p.witness)} ELSE {})

\* everything a task awaits in check_deps
DepsOf(id) ==
    LET p == BodyOf(id) IN
    AnchorDeps(p) \cup gather_deps(p, tasks[id].own, tasks[id].wit)

\* Verifier::check_deps returns: on the first resolved dependency that
\* invalidates, else once every dependency has resolved
CheckDepsVerdict(p, deps) ==
    IF \E d \in deps : tasks[d].st \in Resolved /\ DepInvalidates(p, d, tasks[d].st)
    THEN "Invalid"
    ELSE IF \E d \in deps : DepEquivocates(p, d, tasks[d].st) THEN "Suspicious"
    ELSE "Trusted"

CheckDepsReturnsOnFirst(p, deps) ==
    \/ \E d \in deps : tasks[d].st \in Resolved
    \/ deps = {}

CheckDepsReturns(p, deps) ==
    \/ \E d \in deps : tasks[d].st \in Resolved /\ DepInvalidates(p, d, tasks[d].st)
    \/ \A d \in deps : tasks[d].st \in Resolved

\* the loop of Verifier::check_deps, turn by turn over the dependencies in
\* the order in which their tasks complete
RECURSIVE check_deps(_, _, _)
check_deps(p, order, is_suspicious) ==
    IF order = <<>> THEN (IF is_suspicious THEN "Suspicious" ELSE "Trusted")
    ELSE LET d == Head(order)
             st == tasks[d].st
         IN  IF DepInvalidates(p, d, st) THEN "Invalid"
             ELSE check_deps(p, Tail(order), is_suspicious \/ DepEquivocates(p, d, st))

\* FuturesUnordered: every order in which the tasks of S may complete
RECURSIVE Orders(_)
Orders(S) ==
    IF S = {} THEN {<<>>}
    ELSE UNION {{<<x>> \o o : o \in Orders(S \ {x})} : x \in S}

\* r_0.prev().get(): the round below is still retained
PrevRoundRetainedAboveGenesis(p, later) == p.round > GENESIS_ROUND

PrevRoundRetained(p, later) == later <= Prev(p.round)

\* Verifier::validate up to the verdict, or up to the point where check_deps
\* suspends on a pending dependency.  The anchor links are checked against
\* the rounds retained now; `later` is the oldest round retained when
\* r_0.prev().get() runs at line 88.  [task, deps pushed]
ValidateSync(p, later) ==
    IF ~Alive(p.round) THEN [task |-> Task("NotExists", {}, FALSE, ""), deps |-> {}]
    ELSE IF ~is_self_links_ok(p) THEN [task |-> Task("Invalid", {}, FALSE, "links"), deps |-> {}]
    ELSE LET a == add_anchor_link_if_ok(p, "Proof") IN
         IF a.res = "panic" THEN [task |-> Task("Panicked", {}, FALSE, "links"), deps |-> {}]
         ELSE IF a.res = "false" THEN [task |-> Task("Invalid", {}, FALSE, "links"), deps |-> {}]
         ELSE LET b == add_anchor_link_if_ok(p, "Trigger") IN
              IF b.res = "panic"
              THEN [task |-> Task("Panicked", {}, FALSE, "links"), deps |-> a.dep]
              ELSE IF b.res = "false"
              THEN [task |-> Task("Invalid", {}, FALSE, "links"), deps |-> a.dep]
              ELSE IF ~PrevRoundRetained(p, later)
              THEN [task |-> Task("Trusted", {}, FALSE, "pruned"), deps |-> a.dep \cup b.dep]
              ELSE LET own == OwnVersions(p)
                       wit == later <= Prev(Prev(p.round)) /\ Keys(p.witness) # {}
                       deps == a.dep \cup b.dep \cup gather_deps(p, own, wit)
                   IN  IF \E d \in deps : d.author \notin PeersFor(d.round)   \* DagRound::edit
                       THEN [task |-> Task("Panicked", {}, FALSE, "deps"), deps |-> a.dep \cup b.dep]
                       ELSE IF CheckDepsReturns(p, deps)
                       THEN [task |-> Task(CheckDepsVerdict(p, deps), own, wit, "deps"),
                             deps |-> deps]
                       ELSE [task |-> Task("awaiting", own, wit, "deps"), deps |-> deps]

\* DagLocation::get_or_init for every pushed dependency, then the task's own entry
WithTask(id, rec) ==
    LET task == rec.task
        new == {i \in rec.deps : tasks[i].st = "none"} \ {id}
    IN  [i \in AllIds |->
            IF i = id THEN task
            ELSE IF i \in new THEN Task("download", {}, FALSE, "")
            ELSE tasks[i]]

\* what a received body turns its task into: Verifier::verify, then validate
Received(p, later) ==
    LET v == verify(p) IN
    IF v = "Ok" THEN ValidateSync(p, later)
    ELSE [task |-> Task(v, {}, FALSE, "verify"), deps |-> {}]

\* ---------------------------------------------------------------- actions
\* DagRound::add_broadcast_exact / add_ill_formed_broadcast_exact
AddBroadcast(p) ==
    /\ Alive(p.round)
    /\ p.integrity
    /\ tasks[Id(p)].st \in {"none", "download"}
    /\ tasks' = WithTask(Id(p), Received(p, bottom))
    /\ UNCHANGED <<net, bottom, top, loc, gate, ver, inp, chain, prod, ovl>>

\* Downloader::run finds the point
DownloadFound(id) ==
    /\ tasks[id].st = "download"
    /\ HasBody(id)
    /\ tasks' = WithTask(id, Received(BodyOf(id), bottom))
    /\ UNCHANGED <<net, bottom, top, loc, gate, ver, inp, chain, prod, ovl>>

\* Downloader::run gives up: nobody serves the point
DownloadNotFound(id) ==
    /\ tasks[id].st = "download"
    /\ ~HasBody(id)
    /\ tasks' = [tasks EXCEPT ![id].st = "NotExists"]
    /\ UNCHANGED <<net, bottom, top, loc, gate, ver, inp, chain, prod, ovl>>

\* the retired rounds made a difference to validate
DropSeen(task, p) ==
    \/ task.via = "pruned"
    \/ task.via = "deps" /\ Keys(p.witness) # {}

\* Verifier::validate while the owner of the chain lets go of rounds below b:
\* the anchor links are checked against the rounds retained at line 69; at
\* line 88 r_0.prev().get() finds nothing (b = r), or at line 207
\* r_1.prev().get() finds nothing (b = r-1)
ValidateAcrossDrop(id, b) ==
    /\ tasks[id].st \in {"none", "download"}
    /\ HasBody(id)
    /\ bottom < b /\ b <= id.round /\ id.round <= top
    /\ top - b + 1 >= DAG_DEPTH
    /\ LET rec == Received(BodyOf(id), b) IN
       /\ DropSeen(rec.task, BodyOf(id))
       /\ tasks' = WithTask(id, rec)
    /\ bottom' = b
    /\ UNCHANGED <<net, top, loc, gate, ver, inp, chain, prod, ovl>>

\* a suspended Verifier::check_deps goes on when a dependency resolves
CheckDeps(id) ==
    /\ tasks[id].st = "awaiting"
    /\ LET p == BodyOf(id)
           deps == DepsOf(id)
       IN  /\ CheckDepsReturns(p, deps)
           /\ tasks' = [tasks EXCEPT ![id].st = CheckDepsVerdict(p, deps)]
    /\ UNCHANGED <<net, bottom, top, loc, gate, ver, inp, chain, prod, ovl>>

\* DagRound::new_next
NewNext ==
    /\ top < MaxRound
    /\ top' = top + 1
    /\ UNCHANGED <<net, bottom, tasks, loc, gate, ver, inp, chain, prod, ovl>>

\* the owner of the chain lets go of its oldest round
DropBottom ==
    /\ top - bottom >= DAG_DEPTH
    /\ bottom' = bottom + 1
    /\ UNCHANGED <<net, top, tasks, loc, gate, ver, inp, chain, prod, ovl>>

\* ------------------------------------------- one location, many callers
Callers == 1..MaxCallers
NoCall == [op |-> "none", key |-> 0, vacant |-> FALSE]
Returning == {"add_dependency_exact", "add_dependency"}

\* DagRound::edit: locations.get_mut(author) holds the entry's write guard
\* while the closure runs
EditEnter(c, op, d) ==
    /\ pc[c] = "idle"
    /\ lock = 0
    /\ lock' = c
    /\ pc' = [pc EXCEPT ![c] = "edit"]
    /\ call' = [call EXCEPT ![c] = [op |-> op, key |-> d, vacant |-> FALSE]]
    /\ UNCHANGED <<versions, spawned, futures, handle, dag, gate, ver, inp, chain, prod, ovl>>

\* the four callers of edit that look a digest up in loc.versions
add_dependency_exact(c, d) == EditEnter(c, "add_dependency_exact", d)
add_broadcast_exact(c, d) == EditEnter(c, "add_broadcast_exact", d)
add_evicted_broadcast_exact(c, d) == EditEnter(c, "add_evicted_broadcast_exact", d)
add_dependency(c, d) == EditEnter(c, "add_dependency", d)

\* and the two that bring a point whose verdict is known already
add_ill_formed_broadcast_exact(c, d) == EditEnter(c, "add_ill_formed_broadcast_exact", d)

\* DagRound::insert_exact_sign with a point of round r: the location modelled
\* belongs to the DAG round LocRound
LocRound == GENESIS_ROUND + 1
insert_exact_sign(c, r, d) ==
    IF r # LocRound                                   \* assert_eq!
    THEN /\ pc[c] = "idle"
         /\ pc' = [pc EXCEPT ![c] = "panicked"]
         /\ call' = [call EXCEPT ![c] = [op |-> "insert_exact_sign", key |-> d,
                                          vacant |-> FALSE]]
         /\ UNCHANGED <<lock, versions, spawned, futures, handle, dag, gate, ver, inp, chain, prod, ovl>>
    ELSE EditEnter(c, "insert_exact_sign", d)

\* loc.versions.entry(digest): Vacant or Occupied
VacantAlways(d) == TRUE

VacantUnlessResolved(d) == versions[d] = 0 \/ futures[<<d, versions[d]>>] # "resolved"

Vacant(d) == versions[d] = 0

Entry(c) ==
    /\ pc[c] = "edit"
    /\ pc' = [pc EXCEPT ![c] = "entry"]
    /\ call' = [call EXCEPT ![c].vacant = Vacant(call[c].key)]
    /\ UNCHANGED <<lock, versions, spawned, futures, handle, dag, gate, ver, inp, chain, prod, ovl>>

\* DagPointFuture::new_broadcast validates the body it is given; new_load
\* downloads it first; new_local_trusted and new_ill_formed_broadcast are
\* resolved from the start
NewFuture(op) ==
    CASE op = "add_broadcast_exact" -> "validate"
      [] op = "insert_exact_sign" -> "local"
      [] op = "add_ill_formed_broadcast_exact" -> "resolved"
      [] OTHER -> "download"

\* DagPointFuture::resolve_download hands the broadcast body to a pending
\* download: to be validated, or ill-formed
ResolveDownload(op, st) ==
    IF op = "add_broadcast_exact" /\ st = "download" THEN "validate"
    ELSE IF op = "add_ill_formed_broadcast_exact" /\ st = "download" THEN "resolved"
    ELSE st

\* and_modify(|_| panic!(..)) of insert_exact_sign
OnlyOnce(op, vacant) == op = "insert_exact_sign" /\ ~vacant

\* the rest of the closure, the returned clone, the guard dropped
Apply(c) ==
    LET d == call[c].key
        op == call[c].op
        n == IF call[c].vacant THEN spawned[d] + 1 ELSE versions[d]
    IN  /\ pc[c] = "entry"
        /\ lock' = 0
        /\ IF OnlyOnce(op, call[c].vacant)
           THEN /\ pc' = [pc EXCEPT ![c] = "panicked"]
                /\ UNCHANGED <<versions, spawned, futures, handle, call>>
           ELSE /\ versions' = [versions EXCEPT ![d] = n]
                /\ spawned' = [spawned EXCEPT ![d] = IF call[c].vacant THEN n ELSE @]
                /\ futures' = [futures EXCEPT ![<<d, n>>] =
                                  IF call[c].vacant THEN NewFuture(op)
                                  ELSE ResolveDownload(op, @)]
                /\ handle' = [handle EXCEPT ![c] = IF op \in Returning THEN n ELSE 0]
                /\ pc' = [pc EXCEPT ![c] = "returned"]
                /\ call' = [call EXCEPT ![c] = [NoCall EXCEPT !.key = d, !.op = op]]
        /\ UNCHANGED <<dag, gate, ver, inp, chain, prod, ovl>>

\* the task of a future: the download finishes, then the validation
Downloaded(d, n) ==
    /\ futures[<<d, n>>] = "download"
    /\ futures' = [futures EXCEPT ![<<d, n>>] = "validate"]
    /\ UNCHANGED <<lock, versions, spawned, pc, call, handle, dag, gate, ver, inp, chain, prod, ovl>>

Validated(d, n) ==
    /\ futures[<<d, n>>] = "validate"
    /\ futures' = [futures EXCEPT ![<<d, n>>] = "resolved"]
    /\ UNCHANGED <<lock, versions, spawned, pc, call, handle, dag, gate, ver, inp, chain, prod, ovl>>

\* ------------------------------------------------- the broadcast filter
\* the peers that broadcast to the gate (the rest of the committee is silent),
\* and the rounds they broadcast
GateAuthors == {1, 2}
GateRounds == (GENESIS_ROUND + 1)..MaxRound

\* a point that passes Verifier::verify
Sound(r, a) ==
    CASE r = 1 -> Honest1(a)
      [] r = 2 -> Honest2(a)
      [] r = 3 -> Honest3(a)
      [] OTHER -> [Honest3(a) EXCEPT !.round = r,
                                     !.anchor_trigger = Indirect(MkId(2, 1, 1), "Includes", a)]

\* the points peer 2 broadcasts besides: per round, a second point that is
\* flawed, or the sound point under a bad signature
Unsound(r) ==
    CASE r = 1 -> [Honest1(2) EXCEPT !.digest = 2, !.includes = MapOf({1, 3}, 1)]
      [] r = 2 -> [Honest2(2) EXCEPT !.digest = 2, !.integrity = FALSE]
      [] r = 3 -> [Honest3(2) EXCEPT !.integrity = FALSE]
      [] OTHER -> [Sound(r, 2) EXCEPT !.digest = 2, !.anchor_proof = Direct("Witness", 2)]

GatePoints == {Sound(r, a) : r \in GateRounds, a \in GateAuthors}
                  \cup {Unsound(r) : r \in GateRounds}

\* NodeCount::try_from and NodeCount::reliable_minority
NodeCountTry(n) == n >= 1
ReliableMinority(n) == NodeCountF(n) + 1

\* ConsensusEvent::Verified(point) | ConsensusEvent::Invalid(dag_point), the
\* latter with DagPoint::Invalid or DagPoint::NotExists inside
\* Verifier::verify is a function of the point and of the peer schedule: it is
\* worked out once per point
Verified == [p \in GatePoints |-> verify(p)]

EventByRound(p) ==
    LET v == IF p.round <= current_dag_round THEN "Invalid" ELSE Verified[p] IN
    [round |-> p.round, author |-> p.author, digest |-> p.digest,
     class |-> IF v = "Ok" THEN "Verified" ELSE v]

Event(p) ==
    LET v == Verified[p] IN
    [round |-> p.round, author |-> p.author, digest |-> p.digest,
     class |-> IF v = "Ok" THEN "Verified" ELSE v]

\* ConsensusEvent::Forward(round)
Forward(r) == [round |-> r, author |-> 0, digest |-> 0, class |-> "Forward"]

\* an entry of by_round: the events of a round, one per author and digest
NoEntry == [some |-> FALSE, points |-> {}]
Entry_(points) == [some |-> TRUE, points |-> points]
Buffered(buf) == UNION {buf[r].points : r \in GateRounds}
SameId(e, f) == e.round = f.round /\ e.author = f.author /\ e.digest = f.digest

\* the comparison that rejects a broadcast as out of order
OutOfOrderNever(next, round) == FALSE

OutOfOrder(next, round) == next > round

\* the comparison with the reliable minority
BelowThreshold(same_round, n) ==
    Cardinality({e.author : e \in same_round}) < ReliableMinority(n)

\* the response to a broadcast of a round the gate has reached
ReachedResponse(point, round, dag_round) ==
    IF point.class # "Verified" THEN "Rejected"
    ELSE IF round >= Prev(dag_round) THEN "Accepted"
    ELSE "Rejected"

\* BroadcastFilterInner::advance_round applied to a local round and a buffer:
\* [round, buf, sent]
\* the iteration of by_author: BTreeMap<PeerId, BTreeMap<Digest, ConsensusEvent>>
Before(e, f) == e.author < f.author \/ (e.author = f.author /\ e.digest < f.digest)
InOrder(S) ==
    CHOOSE s \in [1..Cardinality(S) -> S] : \A i, j \in DOMAIN s : i < j => Before(s[i], s[j])
Sent(s) == {s[i] : i \in DOMAIN s}

\* what the loop over `data` sends for a round removed from by_round
Released(buf, r) ==
    IF r \in GateRounds /\ buf[r].some
    THEN <<Forward(r)>> \o InOrder(buf[r].points)
    ELSE <<>>

advance_roundTopOnly(dr, buf, new_round) ==
    IF ~(dr < new_round) THEN [round |-> dr, buf |-> buf, sent |-> <<>>]
    ELSE [round |-> new_round,
          buf |-> [r \in GateRounds |-> IF r > new_round THEN buf[r] ELSE NoEntry],
          sent |-> Released(buf, new_round)]

advance_roundKeepOlder(dr, buf, new_round) ==
    IF ~(dr < new_round) THEN [round |-> dr, buf |-> buf, sent |-> <<>>]
    ELSE [round |-> new_round,
          buf |-> [r \in GateRounds |->
                     IF r \in {Prev(new_round), new_round} THEN NoEntry ELSE buf[r]],
          sent |-> Released(buf, Prev(new_round)) \o Released(buf, new_round)]

advance_round(dr, buf, new_round) ==
    IF ~(dr < new_round) THEN [round |-> dr, buf |-> buf, sent |-> <<>>]
    ELSE [round |-> new_round,
          buf |-> [r \in GateRounds |-> IF r > new_round THEN buf[r] ELSE NoEntry],
          sent |-> Released(buf, Prev(new_round)) \o Released(buf, new_round)]

\* what a call of add comes to: [resp, round, peers, buf, sent, counted]
Outcome(resp, dr, peers, buf, sent, counted) ==
    [resp |-> resp, round |-> dr, peers |-> peers, buf |-> buf, sent |-> sent,
     counted |-> counted]

\* BroadcastFilterInner::add from line 101 on, `dag_round` being what line 99
\* loaded from current_dag_round
add_at(p, point, dag_round) ==
    LET round == p.round
        author == p.author
    IN  IF round <= dag_round
        THEN Outcome(ReachedResponse(point, round, dag_round), current_dag_round, last_by_peer,
                     by_round, <<point>>, {})
        ELSE
        LET had == last_by_peer[author]
            next == IF had # 0 /\ ~(had < round) THEN had ELSE round
            outdated_peer_round ==
                IF had # 0 /\ had < round /\ had >= dag_round THEN had ELSE 0
            peers == [last_by_peer EXCEPT ![author] = next]
        IN  IF OutOfOrder(next, round)
            THEN Outcome("Rejected", current_dag_round, peers, by_round, <<>>, {})
            ELSE
            LET kept == [r \in GateRounds |->
                            IF r = outdated_peer_round /\ by_round[r].some
                            THEN Entry_({e \in by_round[r].points : e.author # author})
                            ELSE by_round[r]]
                n == Cardinality(PeersFor(round))
            IN  IF ~kept[round].some /\ ~NodeCountTry(n)
                THEN Outcome("TryLater", current_dag_round, peers, kept, <<>>, {})
                ELSE
                LET same_round ==
                        {e \in kept[round].points : ~SameId(e, point)} \cup {point}
                    buf == [kept EXCEPT ![round] = Entry_(same_round)]
                    counted == {e.author : e \in same_round}
                IN  IF BelowThreshold(same_round, n)
                    THEN Outcome("TryLater", current_dag_round, peers, buf, <<>>, counted)
                    ELSE LET adv == advance_round(current_dag_round, buf, round)
                         IN  Outcome("Accepted", adv.round, peers, adv.buf, adv.sent, counted)

\* BroadcastFilterInner::add
add_(p, point) == add_at(p, point, current_dag_round)

Max(a, b) == IF a > b THEN a ELSE b

\* a point as the callers name it: its id, and whether its signature is good
Key(p) == <<p.round, p.author, p.digest, p.integrity>>
NoKey == <<0, 0, 0, TRUE>>
NoLast == [point |-> NoKey, class |-> "none", resp |-> "none"]
Ahead(S, dr) == {x \in S : x[1] > dr}

\* an add that is past the load of current_dag_round (line 99)
NoLoad == [some |-> FALSE, point |-> NoKey, dag_round |-> 0]

\* BroadcastFilter::add
add(p) ==
    LET point == Event(p)
        o == add_(p, point)
    IN
    /\ current_dag_round' = o.round
    /\ last_by_peer' = o.peers
    /\ by_round' = o.buf
    /\ output' = o.sent
    /\ last' = [point |-> Key(p), class |-> point.class, resp |-> o.resp]
    /\ validAt' = Ahead(IF point.class = "Verified"
                        THEN validAt \cup {<<p.round, p.author>>} ELSE validAt, o.round)
    /\ hi' = [hi EXCEPT ![p.author] = Max(@, p.round)]
    /\ UNCHANGED <<listening, verdicts, loaded, dag, loc, ver, inp, chain, prod, ovl>>

\* BroadcastFilter::add in two steps of a caller: the load of
\* current_dag_round, then the rest
AddLoad(c, p) ==
    /\ ~loaded[c].some
    /\ loaded' = [loaded EXCEPT ![c] =
                     [some |-> TRUE, point |-> Key(p), dag_round |-> current_dag_round]]
    /\ UNCHANGED <<current_dag_round, last_by_peer, by_round, output, listening, last,
                   validAt, hi, verdicts, dag, loc, ver, inp, chain, prod, ovl>>

AddRest(c) ==
    /\ loaded[c].some
    /\ LET p == CHOOSE q \in GatePoints : Key(q) = loaded[c].point
           point == Event(p)
           o == add_at(p, point, loaded[c].dag_round)
       IN
       /\ current_dag_round' = o.round
       /\ last_by_peer' = o.peers
       /\ by_round' = o.buf
       /\ output' = o.sent
       /\ last' = [point |-> Key(p), class |-> point.class, resp |-> o.resp]
    /\ loaded' = [loaded EXCEPT ![c] = NoLoad]
    /\ UNCHANGED <<listening, validAt, hi, verdicts, dag, loc, ver, inp, chain, prod, ovl>>

\* BroadcastFilter::advance_round, called when the node's own DAG moves on, with
\* any round: one that is not above the local round included
AdvanceRound(new_round) ==
    /\ LET adv == advance_round(current_dag_round, by_round, new_round) IN
       /\ current_dag_round' = adv.round
       /\ by_round' = adv.buf
       /\ output' = adv.sent
       /\ validAt' = Ahead(validAt, adv.round)
    /\ UNCHANGED <<last_by_peer, listening, last, hi, verdicts, loaded, dag, loc, ver, inp, chain, prod, ovl>>

\* BroadcastFilter::clean_cache: the one update it waits for reports the peer
\* Unknown.  An update of another kind ends the listener with no effect: the
\* gate then goes on as in the runs where this step is never taken.
CleanCache(peer) ==
    /\ listening
    /\ listening' = FALSE
    /\ last_by_peer' = [last_by_peer EXCEPT ![peer] = 0]
    /\ hi' = [hi EXCEPT ![peer] = 0]
    /\ UNCHANGED <<current_dag_round, by_round, output, last, validAt, verdicts, loaded, dag, loc, ver, inp, chain, prod, ovl>>

\* ------------------------------------------------- one call of verify
\* the ways a body can be off, applied to a sound point
Flaws == {"none", "few_includes", "more_includes", "witness", "few_evidence",
          "other_evidence", "link"}

Flawed(p, flaw) ==
    CASE flaw = "few_includes" -> [p EXCEPT !.includes = MapOf({1}, 1)]
      [] flaw = "more_includes" -> [p EXCEPT !.includes = MapOf({1, 2, 3, 4}, 1)]
      [] flaw = "witness" -> [p EXCEPT !.witness = MapOf({2}, 1)]
      [] flaw = "few_evidence" ->
            IF p.proof.some THEN [p EXCEPT !.proof.evidence = {CHOOSE a \in @ : TRUE}] ELSE p
      [] flaw = "other_evidence" ->
            IF p.proof.some THEN [p EXCEPT !.proof.evidence = {5, 6}] ELSE p
      [] flaw = "link" -> [p EXCEPT !.anchor_proof = Direct("Witness", p.author)]
      [] OTHER -> p

VerifyPoints ==
    {[Flawed(Sound(r, a), flaw) EXCEPT !.integrity = ok] :
        r \in GateRounds, a \in {1, 2, 3}, flaw \in Flaws, ok \in BOOLEAN}

\* Verifier::verify is called
VerifyCall ==
    /\ verdict = "none"
    /\ verdict' = verify(probe)
    /\ UNCHANGED <<probe, dag, loc, gate, inp, chain, prod, ovl>>

\* ------------------------------------------- the chain of DagRound handles
\* the strong references a DagRoundInner holds to other rounds: `prev` is a
\* WeakDagRound, and every DagLocation is given this.downgrade()
StrongFromRoundPrev(r) == {Prev(r)}

StrongFromRound(r) == {}

\* the strong handles Verifier::validate holds: r_0 from r_0.get() on, r_1
\* from r_0.prev().get() on, none once both are dropped before the await
NoValidate == [round |-> GENESIS_ROUND, st |-> "none"]
Held(v) ==
    CASE v.st = "r0" -> {v.round}
      [] v.st = "r0r1" -> {v.round, Prev(v.round)}
      [] OTHER -> {}

\* Arc: a round stays allocated while a strong reference reaches it
RECURSIVE Pinned(_, _)
Pinned(S, allocated) ==
    LET more == (S \cup UNION {StrongFromRound(r) : r \in S}) \cap allocated
    IN  IF more = S THEN S ELSE Pinned(more, allocated)

Allocated(allocated, handles, v) == Pinned((handles \cup Held(v)) \cap allocated, allocated)

\* DagRound::new_next on the newest round
ChainNewNext ==
    LET r == CHOOSE x \in created : \A y \in created : y <= x IN
    /\ r \in owned
    /\ r < MaxRound
    /\ created' = created \cup {r + 1}
    /\ owned' = owned \cup {r + 1}
    /\ alive' = Allocated(alive \cup {r + 1}, owned', validating)
    /\ UNCHANGED <<validating, scanned, dag, loc, gate, ver, inp, prod, ovl>>

\* the last DagRound handle of a round is dropped
ChainDrop(r) ==
    /\ r \in owned
    /\ owned' = owned \ {r}
    /\ alive' = Allocated(alive, owned', validating)
    /\ UNCHANGED <<created, validating, scanned, dag, loc, gate, ver, inp, prod, ovl>>

\* DagRound::scan on a handle; the caller keeps the round it returns, or drops it
ChainScan(from, round, keep) ==
    /\ from \in owned
    /\ scanned' = [from |-> from, round |-> round, res |-> scan_from(alive, from, round)]
    /\ owned' = IF keep /\ scanned'.res = "Some" THEN owned \cup {round} ELSE owned
    /\ UNCHANGED <<created, alive, validating, dag, loc, gate, ver, inp, prod, ovl>>

\* Verifier::validate: r_0.get() succeeds
ValidateBegin(r) ==
    /\ validating.st = "none"
    /\ r \in alive
    /\ validating' = [round |-> r, st |-> "r0"]
    /\ UNCHANGED <<created, owned, alive, scanned, dag, loc, gate, ver, inp, prod, ovl>>

\* r_0.prev().get(): gather_deps follows, or validate returns
ValidatePrev ==
    /\ validating.st = "r0"
    /\ validating' = IF Prev(validating.round) \in alive
                     THEN [validating EXCEPT !.st = "r0r1"]
                     ELSE NoValidate
    /\ alive' = Allocated(alive, owned, validating')
    /\ UNCHANGED <<created, owned, scanned, dag, loc, gate, ver, inp, prod, ovl>>

\* drop(r_0); drop(r_1); check_deps(..).await
ValidateAwait ==
    /\ validating.st = "r0r1"
    /\ validating' = [validating EXCEPT !.st = "await"]
    /\ alive' = Allocated(alive, owned, validating')
    /\ UNCHANGED <<created, owned, scanned, dag, loc, gate, ver, inp, prod, ovl>>

\* the dependencies resolve and validate returns
ValidateEnd ==
    /\ validating.st = "await"
    /\ validating' = NoValidate
    /\ UNCHANGED <<created, owned, alive, scanned, dag, loc, gate, ver, inp, prod, ovl>>

\* ------------------------------------------------- Producer::new_point
\* the state of a location of the finished round: the verdict of its first
\* resolved point ("none": nothing resolved, or no location for the peer),
\* that point's digest, and what became of the request to sign it
NoLoc == [point |-> "none", digest |-> 0, signed |-> "none"]
LocState(point, digest, signed) == [point |-> point, digest |-> digest, signed |-> signed]
LocStatesOf(ds) ==
    {NoLoc} \cup {LocState(v, d, "none") : v \in {"Suspicious", "Invalid", "NotExists"}, d \in ds}
            \cup {LocState("Trusted", d, sg) : d \in ds, sg \in {"none", "ok", "refused"}}

\* PrevPoint: the digest of the own previous point and the signatures for it
Evidences == {{2}, {2, 3}}
PrevPoints == {NoProof} \cup {Proof(d, ev, TRUE) : d \in Digests, ev \in Evidences}

\* the DAG contents new_point is tried with, at the rounds `rs`: the own
\* location of the finished round in any state, the others in some of them
FinishedRounds ==
    {[a \in AllPeers |-> CASE a = 1 -> own [] a = 2 -> second [] a = 3 -> third [] OTHER -> fourth] :
        own \in LocStatesOf(Digests),
        second \in (LocStatesOf({1}) \ {LocState("Trusted", 1, "none")}),
        third \in {NoLoc, LocState("Trusted", 1, "ok")},
        fourth \in {LocState("Suspicious", 1, "none"), LocState("Trusted", 1, "ok")}}

ProducerInputs(rs) ==
    {[round |-> r, local_id |-> id, prev_retained |-> has[1], key_pair |-> has[2],
      prev_point |-> pp[1],
      finished |-> [a \in AllPeers |-> IF a \in PeersFor(Prev(r)) THEN fin[a] ELSE NoLoc],
      proof_lost |-> pp[2]] :
        r \in rs, id \in {1, 2},
        has \in {<<TRUE, TRUE>>, <<FALSE, TRUE>>, <<TRUE, FALSE>>},
        pp \in {<<NoProof, TRUE>>} \cup {<<x, FALSE>> : x \in PrevPoints},
        fin \in FinishedRounds}

\* the arm of `match current_round.anchor_stage()` that returns None
LeaderSkipsProofOnly(in) ==
    LET stage == AnchorStageOf(in.round) IN
    stage.kind = "Proof" /\ stage.leader = in.local_id /\ ~in.prev_point.some

LeaderSkips(in) ==
    LET stage == AnchorStageOf(in.round) IN
    stage.kind \in {"Proof", "Trigger"} /\ stage.leader = in.local_id /\ ~in.prev_point.some

\* DagPoint::trusted and the filter on loc.state().signed() in Producer::includes
IncludableValid(l) == l.point \in {"Trusted", "Suspicious"} /\ l.signed # "refused"

Includable(l) == l.point = "Trusted" /\ l.signed # "refused"

\* Producer::includes, collected into the map author -> digest
ProducerIncludes(finished) ==
    [a \in AllPeers |-> IF Includable(finished[a]) THEN finished[a].digest ELSE 0]

\* get_time panics when the anchor proof is linked indirectly, no prev_point
\* is given and the linked point has left the DAG; the links are not
\* modelled, `proof_lost` says that this is the case
TimePanics(in) ==
    LET stage == AnchorStageOf(in.round) IN
    /\ in.proof_lost
    /\ ~in.prev_point.some
    /\ ~(stage.kind = "Proof" /\ stage.leader = in.local_id)

NoPoint(kind) == [kind |-> kind, includes |-> NoMap, proof |-> NoProof]

\* Producer::new_point: None, a panic, or the point (its includes and proof)
new_point(in) ==
    LET includes == ProducerIncludes(in.finished)
        prev == in.prev_point
    IN  IF ~in.prev_retained THEN NoPoint("None")
        ELSE IF ~in.key_pair THEN NoPoint("None")
        ELSE IF LeaderSkips(in) THEN NoPoint("None")
        ELSE IF Cardinality(Keys(includes)) < Majority(Cardinality(PeersFor(Prev(in.round))))
             THEN NoPoint("panic")
        ELSE IF TimePanics(in) THEN NoPoint("panic")
        ELSE IF prev.some /\ includes[in.local_id] # prev.digest THEN NoPoint("panic")
        ELSE IF prev.some
                /\ Cardinality(prev.evidence) < MajorityOfOthers(Cardinality(PeersFor(in.round)))
             THEN NoPoint("panic")
        ELSE [kind |-> "point", includes |-> includes, proof |-> prev]

NewPoint ==
    /\ produced.kind = "pending"
    /\ produced' = new_point(producing)
    /\ UNCHANGED <<producing, dag, loc, gate, ver, inp, chain, ovl>>

\* ------------------------------- Producer: the anchor links and the time
\* the current round has the stage for the role, led by the local node
LeadsRole(local_id, round, link_field) ==
    LET stage == AnchorStageOf(round) IN
    stage.kind = link_field /\ stage.leader = local_id

\* Iterator::max_by_key by anchor_round: the points it may return; the
\* order of the points is that of a hash map
MaxByAnchorRound(points, link_field) ==
    {q \in points : \A o \in points : anchor_round(o, link_field) <= anchor_round(q, link_field)}

\* the link through the point q, found at the round `at`
LinkThrough(q, at, through, link_field) ==
    IF q.round = at /\ anchor_link(q, link_field) = ToSelf
    THEN Direct(through, q.author)
    ELSE Indirect(anchor_id(q, link_field), through, q.author)

\* Producer::link_from_includes: the links it may return
link_from_includesAny(local_id, round, includes, link_field) ==
    IF LeadsRole(local_id, round, link_field) THEN {ToSelf}
    ELSE {LinkThrough(q, Prev(round), "Includes", link_field) : q \in includes}

link_from_includes(local_id, round, includes, link_field) ==
    IF LeadsRole(local_id, round, link_field) THEN {ToSelf}
    ELSE {LinkThrough(q, Prev(round), "Includes", link_field) :
            q \in MaxByAnchorRound(includes, link_field)}

\* Producer::update_link_from_witness: the links it may leave in `link`
update_link_from_witnessNotOlder(link, current_round, witness, link_field) ==
    IF link.kind # "Indirect" THEN {link}
    ELSE LET newer == {q \in witness : anchor_round(q, link_field) >= link.to.round} IN
         IF newer = {} THEN {link}
         ELSE {LinkThrough(q, Prev(Prev(current_round)), "Witness", link_field) :
                 q \in MaxByAnchorRound(newer, link_field)}

update_link_from_witness(link, current_round, witness, link_field) ==
    IF link.kind # "Indirect" THEN {link}
    ELSE LET newer == {q \in witness : anchor_round(q, link_field) > link.to.round} IN
         IF newer = {} THEN {link}
         ELSE {LinkThrough(q, Prev(Prev(current_round)), "Witness", link_field) :
                 q \in MaxByAnchorRound(newer, link_field)}

\* the time of the one point of S
TimeOf(S) == (CHOOSE q \in S : TRUE).time

\* Producer::get_time, `finished_round` standing for the valid points that
\* can be reached from it and `now` for UnixTime::now(); -1: the panic
get_time(finished_round, local_id, anchor_proof, prev_point, includes, witness, now) ==
    LET own == {q \in finished_round : q.author = local_id /\ q.digest = prev_point.digest
                                        /\ \A o \in finished_round : o.round <= q.round}
        time == IF prev_point.some /\ own # {} THEN Max(TimeOf(own), now) ELSE now
    IN  CASE anchor_proof.kind = "ToSelf" -> time
          [] anchor_proof.kind = "Direct" ->
                LET through == IF anchor_proof.through = "Includes" THEN includes ELSE witness
                    found == {q \in through : q.author = anchor_proof.peer}
                IN  IF found # {} THEN Max(TimeOf(found), time) ELSE time
          [] anchor_proof.kind = "Indirect" ->
                IF ~prev_point.some
                THEN LET valid == {q \in finished_round : Id(q) = anchor_proof.to} IN
                     IF valid # {} THEN Max(TimeOf(valid), time) ELSE -1
                ELSE time

\* a set of points collected into the map author -> digest
DigestsOf(points) ==
    [a \in AllPeers |->
        IF \E q \in points : q.author = a
        THEN (CHOOSE q \in points : q.author = a).digest ELSE 0]

\* the two calls of link_from_includes and the two of
\* update_link_from_witness in Producer::new_point: what they may give
LinkChoices(in) ==
    UNION {UNION {{[trigger |-> t, proof |-> l, anchor_trigger |-> at, anchor_proof |-> ap] :
                      at \in update_link_from_witness(t, in.round, in.witness, "Trigger"),
                      ap \in update_link_from_witness(l, in.round, in.witness, "Proof")} :
                  l \in link_from_includes(in.local_id, in.round, in.includes, "Proof")} :
              t \in link_from_includes(in.local_id, in.round, in.includes, "Trigger")}

\* Producer::new_point from the includes and the witness on: what it may
\* return, a point with the two links link_from_includes gave, or a panic
NoLinks == [Proof |-> ToSelf, Trigger |-> ToSelf]
NoLinkPoint(kind) == [kind |-> kind, point |-> Genesis, from_includes |-> NoLinks]
links_and_time(in) ==
    IF LeaderSkips(in) THEN {NoLinkPoint("None")}
    ELSE IF Cardinality(in.includes) < Majority(Cardinality(PeersFor(Prev(in.round))))
    THEN {NoLinkPoint("panic")}
    ELSE IF in.prev_point.some /\ DigestsOf(in.includes)[in.local_id] # in.prev_point.digest
    THEN {NoLinkPoint("panic")}
    ELSE IF in.prev_point.some
            /\ Cardinality(in.prev_point.evidence)
                    < MajorityOfOthers(Cardinality(PeersFor(in.round)))
    THEN {NoLinkPoint("panic")}
    ELSE
    {LET time == get_time(in.valid, in.local_id, c.anchor_proof, in.prev_point,
                          in.includes, in.witness, in.now)
     IN  [kind |-> IF time = -1 THEN "panic" ELSE "point",
          point |-> Pt(in.round, in.local_id, 1, time, 0, in.prev_point,
                       DigestsOf(in.includes), DigestsOf(in.witness),
                       c.anchor_proof, c.anchor_trigger),
          from_includes |-> [Proof |-> c.proof, Trigger |-> c.trigger]] :
        c \in LinkChoices(in)}

\* what new_point is called with here: the round, the local node, the valid
\* points its DAG holds, those of them Producer::includes and
\* Producer::witness select, the PrevPoint and the clock
LinkInput(round, local_id, valid, includes, witness, prev_point, now) ==
    [round |-> round, local_id |-> local_id, prev_retained |-> TRUE, key_pair |-> TRUE,
     valid |-> valid, includes |-> includes, witness |-> witness,
     prev_point |-> prev_point, now |-> now]

\* a point new_point returns for the input
Made(in) == (CHOOSE o \in links_and_time(in) : o.kind = "point").point

\* the first wave of a run in which every peer follows the protocol: the
\* genesis point, then every peer's point of round 1, the leader's clock
\* showing c1 and the others' c, then every peer's point of round 2, those
\* of the peers in `late` made before the leader's point of round 1 arrived
FirstGenesis == [Genesis EXCEPT !.time = 0]
OwnProof(a) == Proof(1, Others(a), TRUE)
Round1(c1, c) ==
    {Made(LinkInput(GENESIS_ROUND + 1, a, {FirstGenesis}, {FirstGenesis}, {},
                    IF a = 1 THEN OwnProof(a) ELSE NoProof,
                    IF a = 1 THEN c1 ELSE c)) : a \in AllPeers}
Round2(r1, late, c2) ==
    {Made(LinkInput(GENESIS_ROUND + 2, a, {FirstGenesis} \cup r1,
                    IF a \in late THEN {q \in r1 : q.author # 1} ELSE r1, {},
                    OwnProof(a), c2)) : a \in AllPeers}

\* the calls of new_point in the first wave: the node has any majority of
\* the points of the finished round and has signed any of the points of the
\* round before that it tells about
Majorities(points, committee) ==
    {S \in SUBSET points : Cardinality(S) >= Majority(Cardinality(committee))}
LinkCallers == {1, 2}
LinkCalls(round, valid, finished, before) ==
    {in \in {LinkInput(round, id, valid, includes, witness, prev_point, now) :
                id \in LinkCallers,
                includes \in Majorities(finished, PeersFor(Prev(round))),
                witness \in SUBSET {q \in before : q.author \in LinkCallers},
                prev_point \in {NoProof} \cup {OwnProof(a) : a \in LinkCallers},
                now \in Times} :
        in.prev_point.some => in.prev_point = OwnProof(in.local_id)}
Lates == {{}, {2}, {2, 3, 4}}
LinkInputs ==
    LinkCalls(GENESIS_ROUND + 1, {FirstGenesis}, {FirstGenesis}, {})
    \cup UNION {LET r1 == Round1(c1, c) IN
                LinkCalls(GENESIS_ROUND + 2, {FirstGenesis} \cup r1, r1, {FirstGenesis}) :
                    c1 \in Times, c \in Times}
    \cup UNION {LET r1 == Round1(c1, c)
                    r2 == Round2(r1, late, c2)
                IN  LinkCalls(GENESIS_ROUND + 3, {FirstGenesis} \cup r1 \cup r2, r2, r1) :
                    c1 \in Times, c \in Times, c2 \in Times, late \in Lates}

LinkNewPoint ==
    /\ produced.kind = "pending"
    /\ produced' \in links_and_time(producing)
    /\ UNCHANGED <<producing, dag, loc, gate, ver, inp, chain, ovl>>

\* ------------------------------------------------- PrivateOverlayEntries
\* the peers of the overlay; a KnownPeerHandle names its peer (peer_info().id)
\* and there may be several handles of one peer
OverlayPeers == {1, 2, 3}
NoHandle == [peer |-> 0, info |-> "none"]
KnownPeerHandle(peer, info) == [peer |-> peer, info |-> info]
Handles == {KnownPeerHandle(peer, info) : peer \in OverlayPeers, info \in {"first", "second"}}

\* PrivateOverlayEntryIndices, positions counted from 1; data_index 0: the
\* map has no entry for the peer; resolved_data_index 0: None
NoIndices == [data_index |-> 0, resolved_data_index |-> 0]
Contains(e, peer_id) == e.peer_id_to_index[peer_id].data_index # 0
NoEntries ==
    [peer_id_to_index |-> [peer \in OverlayPeers |-> NoIndices], data |-> <<>>,
     resolved_peers |-> <<>>]

\* Vec::swap_remove
SwapRemove(seq, i) ==
    LET rest == SubSeq(seq, 1, Len(seq) - 1) IN
    IF i = Len(seq) THEN rest ELSE [rest EXCEPT ![i] = seq[Len(seq)]]

\* the handle of a peer is stored: replaced where there is one, else pushed
StoreHandle(e, peer_id, known_peer) ==
    LET index == e.peer_id_to_index[peer_id].resolved_data_index IN
    IF index # 0
    THEN [e EXCEPT !.resolved_peers[index] = known_peer]
    ELSE [e EXCEPT !.peer_id_to_index[peer_id].resolved_data_index = Len(e.resolved_peers) + 1,
                   !.resolved_peers = Append(@, known_peer)]

\* PrivateOverlayEntries::insert: [entries, ret]
insert(e, peer_id, known_peer) ==
    IF ~Contains(e, peer_id)
    THEN [entries |->
            [peer_id_to_index |->
                [e.peer_id_to_index EXCEPT ![peer_id] =
                    [data_index |-> Len(e.data) + 1,
                     resolved_data_index |->
                        IF known_peer # NoHandle THEN Len(e.resolved_peers) + 1 ELSE 0]],
             data |-> Append(e.data, peer_id),
             resolved_peers |-> IF known_peer # NoHandle THEN Append(e.resolved_peers, known_peer)
                                ELSE e.resolved_peers],
          ret |-> "true"]
    ELSE [entries |-> IF known_peer # NoHandle THEN StoreHandle(e, peer_id, known_peer) ELSE e,
          ret |-> "false"]

\* PrivateOverlayEntries::set_resolved
set_resolved(e, known_peer) ==
    LET peer_id == known_peer.peer IN
    IF Contains(e, peer_id)
    THEN [entries |-> StoreHandle(e, peer_id, known_peer), ret |-> "true"]
    ELSE [entries |-> e, ret |-> "false"]

\* PrivateOverlayEntries::fix_data_index and fix_resolved_data_index, with the
\* position `index` counted from 1: [entries, panic]
fix_data_indexNever(e, index) == [entries |-> e, panic |-> FALSE]

fix_data_index(e, index) ==
    IF index <= Len(e.data)
    THEN IF ~Contains(e, e.data[index]) THEN [entries |-> e, panic |-> TRUE]
         ELSE [entries |-> [e EXCEPT !.peer_id_to_index[e.data[index]].data_index = index],
               panic |-> FALSE]
    ELSE [entries |-> e, panic |-> FALSE]

fix_resolved_data_index(e, index) ==
    IF index <= Len(e.resolved_peers)
    THEN LET peer_id == e.resolved_peers[index].peer IN
         IF ~Contains(e, peer_id) THEN [entries |-> e, panic |-> TRUE]
         ELSE [entries |-> [e EXCEPT !.peer_id_to_index[peer_id].resolved_data_index = index],
               panic |-> FALSE]
    ELSE [entries |-> e, panic |-> FALSE]

\* PrivateOverlayEntries::remove
remove(e, peer_id) ==
    IF ~Contains(e, peer_id) THEN [entries |-> e, ret |-> "false"]
    ELSE
    LET link == e.peer_id_to_index[peer_id]
        unlinked == [e EXCEPT !.peer_id_to_index[peer_id] = NoIndices,
                              !.data = SwapRemove(@, link.data_index)]
        fixed == fix_data_index(unlinked, link.data_index)
    IN  IF fixed.panic THEN [entries |-> fixed.entries, ret |-> "panic"]
        ELSE IF link.resolved_data_index = 0 THEN [entries |-> fixed.entries, ret |-> "true"]
        ELSE LET dropped == [fixed.entries EXCEPT
                                !.resolved_peers = SwapRemove(@, link.resolved_data_index)]
                 refixed == fix_resolved_data_index(dropped, link.resolved_data_index)
             IN  [entries |-> refixed.entries,
                  ret |-> IF refixed.panic THEN "panic" ELSE "true"]

\* PrivateOverlayEntries::clear
clear(e) == [entries |-> NoEntries, ret |-> "none"]

\* a call on the entries held under the write guard; a handle given to insert
\* is a handle of the peer it is given with
Returned(op, peer_id, res) ==
    [op |-> op, peer |-> peer_id,
     had |-> peer_id \in OverlayPeers /\ Contains(entries, peer_id), ret |-> res.ret]

OverlayCall(op, peer_id, res) ==
    /\ returned.ret # "panic"
    /\ entries' = res.entries
    /\ returned' = Returned(op, peer_id, res)
    /\ UNCHANGED <<dag, loc, gate, ver, inp, chain, prod>>

Insert(peer_id, known_peer) == OverlayCall("insert", peer_id, insert(entries, peer_id, known_peer))
SetResolved(known_peer) == OverlayCall("set_resolved", known_peer.peer, set_resolved(entries, known_peer))
Remove(peer_id) == OverlayCall("remove", peer_id, remove(entries, peer_id))
Clear == OverlayCall("clear", 0, clear(entries))


\* ----------------------------------------------------- the input buffer
\* MempoolConfig: the byte budget of the buffer and of one batch
PAYLOAD_BUFFER_BYTES == 1000
PAYLOAD_BATCH_BYTES == 700

\* the payloads the externals channel may deliver: the n-th has one of these
\* lengths (800 is above the budget of a batch, 1100 above that of the buffer)
PayloadLens == {200, 500, 600, 800, 1100}
Blob(n, len) == [id |-> n, len |-> len]

RECURSIVE SumLen(_)
SumLen(seq) == IF seq = <<>> THEN 0 ELSE Head(seq).len + SumLen(Tail(seq))

Drain(seq, n) == SubSeq(seq, n + 1, Len(seq))
SaturatingSub(a, b) == IF a > b THEN a - b ELSE 0

\* the take_while of InputBufferData::fetch: the longest prefix within the
\* batch budget
TakeWhileBatch(seq) ==
    CHOOSE k \in 0..Len(seq) :
        /\ SumLen(SubSeq(seq, 1, k)) <= PAYLOAD_BATCH_BYTES
        /\ k < Len(seq) => SumLen(SubSeq(seq, 1, k + 1)) > PAYLOAD_BATCH_BYTES

\* the take_while(..).count() of InputBufferData::add from element i on, with
\* its writes to data_bytes: [to_drop, data_bytes, panic]
RECURSIVE Evicted(_, _, _, _)
Evicted(seq, bytes, max_data_bytes, i) ==
    IF i > Len(seq) THEN [to_drop |-> Len(seq), data_bytes |-> bytes, panic |-> FALSE]
    ELSE IF bytes < seq[i].len               \* checked_sub(..).expect(..)
    THEN [to_drop |-> i - 1, data_bytes |-> bytes, panic |-> TRUE]
    ELSE LET left == bytes - seq[i].len IN
         IF left > max_data_bytes
         THEN Evicted(seq, left, max_data_bytes, i + 1)
         ELSE [to_drop |-> i - 1, data_bytes |-> left, panic |-> FALSE]

\* InputBufferImpl::consume receives a payload and calls InputBufferData::add
BufferAdd(len) ==
    /\ "consume" \notin panicked
    /\ received < MaxBlobs
    /\ received' = received + 1
    /\ lastop' = [op |-> "add", only_fresh |-> FALSE, after |-> lastop.op]
    /\ LET payload == Blob(received + 1, len)
           max_data_bytes == PAYLOAD_BUFFER_BYTES - len
       IN  IF ~(len <= PAYLOAD_BUFFER_BYTES)          \* the length is checked first
           THEN /\ panicked' = panicked \cup {"consume"}
                /\ UNCHANGED <<data, data_bytes, offset_elements>>
           ELSE IF data_bytes > max_data_bytes
           THEN LET ev == Evicted(data, data_bytes, max_data_bytes, 1) IN
                IF ev.panic
                THEN /\ panicked' = panicked \cup {"consume"}
                     /\ data_bytes' = ev.data_bytes
                     /\ UNCHANGED <<data, offset_elements>>
                ELSE /\ offset_elements' = SaturatingSub(offset_elements, ev.to_drop)
                     /\ data' = Append(Drain(data, ev.to_drop), payload)
                     /\ data_bytes' = ev.data_bytes + len
                     /\ UNCHANGED panicked
           ELSE /\ data' = Append(data, payload)
                /\ data_bytes' = data_bytes + len
                /\ UNCHANGED <<offset_elements, panicked>>
    /\ UNCHANGED <<fetched, dag, loc, gate, ver, chain, prod, ovl>>

\* InputBufferData::fetch on a buffer
fetch(seq) == SubSeq(seq, 1, TakeWhileBatch(seq))

\* InputBufferData::fetch_inner with commit_offset always run
fetch_innerCommitting(only_fresh) ==
    IF data_bytes < SumLen(SubSeq(data, 1, offset_elements))
    THEN [data |-> Drain(data, offset_elements), data_bytes |-> data_bytes,
          offset_elements |-> offset_elements, panic |-> TRUE, result |-> <<>>]
    ELSE LET left == Drain(data, offset_elements) IN
         [data |-> left,
          data_bytes |-> data_bytes - SumLen(SubSeq(data, 1, offset_elements)),
          offset_elements |-> Len(fetch(left)), panic |-> FALSE, result |-> fetch(left)]

\* InputBufferData::fetch_inner: [data, data_bytes, offset_elements, panic, result]
fetch_inner(only_fresh) ==
    IF only_fresh
    THEN \* commit_offset, then fetch
         IF data_bytes < SumLen(SubSeq(data, 1, offset_elements))
         THEN [data |-> Drain(data, offset_elements), data_bytes |-> data_bytes,
               offset_elements |-> offset_elements, panic |-> TRUE, result |-> <<>>]
         ELSE LET left == Drain(data, offset_elements) IN
              [data |-> left,
               data_bytes |-> data_bytes - SumLen(SubSeq(data, 1, offset_elements)),
               offset_elements |-> Len(fetch(left)), panic |-> FALSE, result |-> fetch(left)]
    ELSE [data |-> data, data_bytes |-> data_bytes,
          offset_elements |-> Len(fetch(data)), panic |-> FALSE, result |-> fetch(data)]

\* InputBuffer::fetch, called by the engine
BufferFetch(only_fresh) ==
    /\ "engine" \notin panicked
    /\ LET r == fetch_inner(only_fresh) IN
       /\ data' = r.data
       /\ data_bytes' = r.data_bytes
       /\ offset_elements' = r.offset_elements
       /\ panicked' = IF r.panic THEN panicked \cup {"engine"} ELSE panicked
       /\ fetched' = IF r.panic THEN fetched ELSE r.result
    /\ lastop' = [op |-> "fetch", only_fresh |-> only_fresh, after |-> lastop.op]
    /\ UNCHANGED <<received, dag, loc, gate, ver, chain, prod, ovl>>

\* ------------------------------------------------------------ specification
LocInit ==
    /\ lock = 0
    /\ versions = [d \in Digests |-> 0]
    /\ spawned = [d \in Digests |-> 0]
    /\ futures = [t \in Digests \X Callers |-> "absent"]
    /\ pc = [c \in Callers |-> "idle"]
    /\ call = [c \in Callers |-> NoCall]
    /\ handle = [c \in Callers |-> 0]

DagInit ==
    /\ bottom = GENESIS_ROUND
    /\ top = GENESIS_ROUND
    /\ tasks = [i \in AllIds |->
                  IF i = GenesisId
                  THEN Task("Trusted", {}, FALSE, "")    \* insert_exact_sign
                  ELSE NoTask]

\* BroadcastFilter::new
GateInit ==
    /\ current_dag_round = 0
    /\ last_by_peer = [a \in GateAuthors |-> 0]
    /\ by_round = [r \in GateRounds |-> NoEntry]
    /\ output = <<>>
    /\ listening = TRUE
    /\ last = NoLast
    /\ validAt = {}
    /\ hi = [a \in GateAuthors |-> 0]
    /\ verdicts = [k \in {Key(p) : p \in GatePoints} |->
                       verify(CHOOSE p \in GatePoints : Key(p) = k)]
    /\ loaded = [c \in Callers |-> NoLoad]

NoCallOfVerify ==
    /\ probe = Genesis
    /\ verdict = "none"

\* InputBufferData::default
InputInit ==
    /\ data = <<>>
    /\ data_bytes = 0
    /\ offset_elements = 0
    /\ panicked = {}
    /\ received = 0
    /\ lastop = [op |-> "none", only_fresh |-> FALSE, after |-> "none"]
    /\ fetched = <<>>

\* DagRound::new_bottom
NoScan == [from |-> GENESIS_ROUND, round |-> GENESIS_ROUND, res |-> "none"]
ChainInit ==
    /\ created = {GENESIS_ROUND}
    /\ owned = {GENESIS_ROUND}
    /\ alive = {GENESIS_ROUND}
    /\ validating = NoValidate
    /\ scanned = NoScan

\* PrivateOverlayBuilder::build before it inserts the allowed peers
OverlayInit ==
    /\ entries = NoEntries
    /\ returned = [op |-> "none", peer |-> 0, had |-> FALSE, ret |-> "none"]

NoInput ==
    [round |-> GENESIS_ROUND + 1, local_id |-> 1, prev_retained |-> FALSE, key_pair |-> FALSE,
     prev_point |-> NoProof, finished |-> [a \in AllPeers |-> NoLoc], proof_lost |-> FALSE]
NoCallOfProducer ==
    /\ producing = NoInput
    /\ produced = NoPoint("pending")

Init ==
    /\ net \in DOMAIN Worlds
    /\ DagInit
    /\ LocInit
    /\ GateInit
    /\ NoCallOfVerify
    /\ InputInit
    /\ ChainInit
    /\ OverlayInit
    /\ NoCallOfProducer

Next ==
    \/ \E p \in World : AddBroadcast(p)
    \/ \E id \in AllIds : DownloadFound(id)
    \/ \E id \in AllIds : DownloadNotFound(id)
    \/ \E id \in AllIds : \E b \in {Prev(id.round), id.round} : ValidateAcrossDrop(id, b)
    \/ \E id \in AllIds : CheckDeps(id)
    \/ NewNext
    \/ DropBottom

Spec == Init /\ [][Next]_vars

\* the callers of one location of a retained round
LocSpecInit ==
    /\ net = 1
    /\ DagInit
    /\ LocInit
    /\ GateInit
    /\ NoCallOfVerify
    /\ InputInit
    /\ ChainInit
    /\ OverlayInit
    /\ NoCallOfProducer

LocNext ==
    \/ \E c \in Callers : \E d \in Digests : add_dependency_exact(c, d)
    \/ \E c \in Callers : \E d \in Digests : add_broadcast_exact(c, d)
    \/ \E c \in Callers : \E d \in Digests : add_evicted_broadcast_exact(c, d)
    \/ \E c \in Callers : \E d \in Digests : add_dependency(c, d)
    \/ \E c \in Callers : \E d \in Digests : add_ill_formed_broadcast_exact(c, d)
    \/ \E c \in Callers : \E r \in {LocRound, LocRound + 1} : \E d \in Digests :
            insert_exact_sign(c, r, d)
    \/ \E c \in Callers : Entry(c)
    \/ \E c \in Callers : Apply(c)
    \/ \E d \in Digests : \E n \in Callers : Downloaded(d, n)
    \/ \E d \in Digests : \E n \in Callers : Validated(d, n)

LocSpec == LocSpecInit /\ [][LocNext]_vars

\* the gate under broadcasts of every peer, in any order
GateNext ==
    \/ \E p \in GatePoints : add(p)
    \/ \E r \in GateRounds : AdvanceRound(r)
    \/ \E a \in GateAuthors : CleanCache(a)

GateSpec == LocSpecInit /\ [][GateNext]_vars

\* the gate under concurrent calls: a task calls add with sound points
\* while the engine calls advance_round
RaceCallers == {c \in Callers : c <= 1}
RacePoints == {Sound(r, a) : r \in GateRounds, a \in GateAuthors}

RaceNext ==
    \/ \E c \in RaceCallers : \E p \in RacePoints : AddLoad(c, p)
    \/ \E c \in RaceCallers : AddRest(c)
    \/ \E r \in GateRounds : AdvanceRound(r)

RaceSpec == LocSpecInit /\ [][RaceNext]_vars

\* verify called once with any of the points
VerifyInit ==
    /\ net = 1
    /\ DagInit
    /\ LocInit
    /\ GateInit
    /\ probe \in VerifyPoints
    /\ verdict = "none"
    /\ InputInit
    /\ ChainInit
    /\ OverlayInit
    /\ NoCallOfProducer

VerifyNext == VerifyCall

VerifySpec == VerifyInit /\ [][VerifyNext]_vars

\* the input buffer between the externals channel and the engine
InputNext ==
    \/ \E len \in PayloadLens : BufferAdd(len)
    \/ \E only_fresh \in BOOLEAN : BufferFetch(only_fresh)

InputSpec == LocSpecInit /\ [][InputNext]_vars

\* the same with no payload above PAYLOAD_BUFFER_BYTES on the channel
ValidLens == {len \in PayloadLens : len <= PAYLOAD_BUFFER_BYTES}

ValidInputNext ==
    \/ \E len \in ValidLens : BufferAdd(len)
    \/ \E only_fresh \in BOOLEAN : BufferFetch(only_fresh)

ValidInputSpec == LocSpecInit /\ [][ValidInputNext]_vars

\* the channel delivers its payloads, then the engine calls fetch(true) again
\* and again while nothing more arrives
DrainNext ==
    \/ \E len \in ValidLens : lastop.op # "fetch" /\ BufferAdd(len)
    \/ BufferFetch(TRUE)

DrainSpec == LocSpecInit /\ [][DrainNext]_vars /\ WF_vars(BufferFetch(TRUE))

\* a chain of rounds, its handles taken and dropped in any order
ChainNext ==
    \/ ChainNewNext
    \/ \E r \in Rounds : ChainDrop(r)
    \/ \E from \in Rounds : \E round \in Rounds : \E keep \in BOOLEAN :
            ChainScan(from, round, keep)
    \/ \E r \in Rounds : ValidateBegin(r)
    \/ ValidatePrev
    \/ ValidateAwait
    \/ ValidateEnd

ChainSpec == LocSpecInit /\ [][ChainNext]_vars

\* new_point called once, with any of the inputs
ProducerInit ==
    /\ net = 1
    /\ DagInit
    /\ LocInit
    /\ GateInit
    /\ NoCallOfVerify
    /\ InputInit
    /\ ChainInit
    /\ OverlayInit
    /\ producing \in ProducerInputs((GENESIS_ROUND + 1)..MaxRound)
    /\ produced = NoPoint("pending")

ProducerNext == NewPoint

ProducerSpec == ProducerInit /\ [][ProducerNext]_vars

\* the calls of Producer::new_point in the first wave
LinkInit ==
    /\ net = 1
    /\ DagInit
    /\ LocInit
    /\ GateInit
    /\ NoCallOfVerify
    /\ InputInit
    /\ ChainInit
    /\ OverlayInit
    /\ producing \in LinkInputs
    /\ produced = NoLinkPoint("pending")

LinkNext == LinkNewPoint

LinkSpec == LinkInit /\ [][LinkNext]_vars

\* the entries of a private overlay under any calls
OverlayNext ==
    \/ \E peer_id \in OverlayPeers :
          \E known_peer \in {NoHandle} \cup {h \in Handles : h.peer = peer_id} :
             Insert(peer_id, known_peer)
    \/ \E known_peer \in Handles : SetResolved(known_peer)
    \/ \E peer_id \in OverlayPeers : Remove(peer_id)
    \/ Clear

OverlaySpec == LocSpecInit /\ [][OverlayNext]_vars

\* -------------------------------------------------------------- properties
St(id) == tasks[id].st
Known == DOMAIN Bodies[net]      \* only a point with a body gets a verdict from validate
Fields == {"Proof", "Trigger"}
InWorld(W) == World = W

\* check_deps returned a verdict for the point
Checked(id) == tasks[id].via = "deps" /\ St(id) \in Resolved

\* the designated leader's point for the role at its round
IsLeaderPoint(id, field) ==
    AnchorStageOf(id.round) = [kind |-> field, leader |-> id.author]

\* validate gathered the dependency the point's path for the role runs through
Gathered(id, field) ==
    /\ tasks[id].via = "deps"
    /\ anchor_link(BodyOf(id), field).through = "Witness" => tasks[id].wit

\* every hop of the path from the point id is a valid point that declares the
\* anchor target; the walk goes on through the hops whose own path was gathered
RECURSIVE Reaches(_, _, _)
Reaches(id, field, target) ==
    LET hop == anchor_link_id(BodyOf(id), field) IN
    /\ St(hop) \in Valid
    /\ hop # target =>
          /\ anchor_id(BodyOf(hop), field) = target
          /\ Gathered(hop, field) => Reaches(hop, field, target)

\* the same walk whatever the hops were validated against
RECURSIVE ReachesAll(_, _, _)
ReachesAll(id, field, target) ==
    LET hop == anchor_link_id(BodyOf(id), field) IN
    /\ St(hop) \in Valid
    /\ hop # target =>
          /\ anchor_id(BodyOf(hop), field) = target
          /\ ReachesAll(hop, field, target)

\* C1 as stated: every Trusted or Suspicious point with a Direct or Indirect
\* anchor link reaches its declared anchor, hop by hop through valid points
\* that declare the same anchor, and the anchor is the leader's point (the
\* genesis point counts as one)
C1_ClosureAsStated ==
    \A id \in Known : \A field \in Fields :
        (St(id) \in Valid /\ anchor_link(BodyOf(id), field).kind # "ToSelf") =>
            /\ ReachesAll(id, field, anchor_id(BodyOf(id), field))
            /\ \/ anchor_id(BodyOf(id), field).round = GENESIS_ROUND
               \/ IsLeaderPoint(anchor_id(BodyOf(id), field), field)

\* C1 amended: the closure holds for every Trusted or Suspicious point whose
\* verdict comes from check_deps with the path's dependency gathered, and it
\* continues through every hop validated that way; the anchor is the role's
\* leader point at its round unless it lies in the genesis round
C1_Closure ==
    \A id \in Known : \A field \in Fields :
        (/\ St(id) \in Valid
         /\ anchor_link(BodyOf(id), field).kind # "ToSelf"
         /\ Gathered(id, field)) =>
            /\ Reaches(id, field, anchor_id(BodyOf(id), field))
            /\ \/ anchor_id(BodyOf(id), field).round = GENESIS_ROUND
               \/ IsLeaderPoint(anchor_id(BodyOf(id), field), field)

\* C1 witness: a round-3 point is Trusted over the two-hop path to the leader's
\* round-1 point, every hop of it validated by check_deps
C1_Witness ==
    /\ InWorld(HonestWorld)
    /\ Checked(Id(Honest3(2)))
    /\ St(Id(Honest3(2))) = "Trusted"
    /\ tasks[Id(Honest2(2))].via = "deps"

\* the dependencies check_deps awaited at the point's own previous location
OwnDeps(id) == {d \in DepsOf(id) : Location(d) = PrevLoc(BodyOf(id))}
OtherDeps(id) == DepsOf(id) \ OwnDeps(id)

\* C2: when check_deps has returned and an awaited dependency outside the
\* point's own previous location resolved Invalid or NotExists, the verdict
\* is Invalid
C2_OtherDepInvalid ==
    \A id \in Known :
        (Checked(id) /\ \E d \in OtherDeps(id) : St(d) \in {"Invalid", "NotExists"})
            => St(id) = "Invalid"

\* C2 witness: a round-2 point includes a round-1 point of another author that
\* nobody has; everything else it depends on is Trusted
C2_Witness ==
    /\ InWorld(MissingWorld)
    /\ Checked(Id(Picky3))
    /\ St(Id(Picky3)) = "Invalid"
    /\ St(MkId(1, 2, 2)) = "NotExists"
    /\ \A d \in DepsOf(Id(Picky3)) \ {MkId(1, 2, 2)} : St(d) = "Trusted"

\* C3 as stated: when check_deps has returned and an awaited dependency at the
\* point's own previous location resolved Invalid or NotExists, the verdict is
\* Invalid, whatever the digest and with or without a proof
C3_OwnDepAsStated ==
    \A id \in Known :
        (Checked(id) /\ \E d \in OwnDeps(id) : St(d) \in {"Invalid", "NotExists"})
            => St(id) = "Invalid"

\* C3 amended: an Invalid dependency at the point's own previous location
\* makes the verdict Invalid when the point has no proof or proves that
\* digest; a NotExists one when the point proves that digest
C3_OwnDepInvalid ==
    \A id \in Known :
        Checked(id) =>
            \A d \in OwnDeps(id) :
                LET p == BodyOf(id) IN
                /\ (/\ St(d) = "Invalid"
                    /\ p.proof.some => d.digest = p.proof.digest) => St(id) = "Invalid"
                /\ (/\ St(d) = "NotExists"
                    /\ p.proof.some
                    /\ d.digest = p.proof.digest) => St(id) = "Invalid"

\* C3 witness: a round-2 point proves its author's invalid round-1 point;
\* everything else it depends on is Trusted
C3_Witness ==
    /\ InWorld(ProvenBadWorld)
    /\ Checked(Id(Proves2))
    /\ St(Id(Proves2)) = "Invalid"
    /\ St(Id(Ill2)) = "Invalid"
    /\ \A d \in DepsOf(Id(Proves2)) \ {Id(Ill2)} : St(d) = "Trusted"

\* C4 as stated: a point check_deps found valid is Suspicious exactly when a
\* resolved dependency at its own previous location has another digest than
\* the proof, and Trusted otherwise
C4_EquivocationAsStated ==
    \A id \in Known :
        (Checked(id) /\ St(id) \in Valid) =>
            (St(id) = "Suspicious" <=>
                \E d \in OwnDeps(id) :
                    /\ St(d) \in Resolved
                    /\ BodyOf(id).proof.some
                    /\ d.digest # BodyOf(id).proof.digest)

\* C4 amended: a point check_deps found valid is Suspicious exactly when a
\* dependency at its own previous location that resolved Trusted, Suspicious
\* or Invalid has another digest than the proof, and Trusted otherwise
C4_Equivocation ==
    \A id \in Known :
        (Checked(id) /\ St(id) \in Valid) =>
            (St(id) = "Suspicious" <=>
                \E d \in OwnDeps(id) :
                    /\ St(d) \in Valid \cup {"Invalid"}
                    /\ BodyOf(id).proof.some
                    /\ d.digest # BodyOf(id).proof.digest)

\* C4 witness: the author has two valid round-1 points; the round-2 point
\* that proves one of them is Suspicious
C4_Witness ==
    /\ InWorld(EquivWorld)
    /\ Checked(Id(Honest2(2)))
    /\ St(Id(Honest2(2))) = "Suspicious"
    /\ St(Id(Twin2)) \in Valid
    /\ St(Id(Honest1(2))) \in Valid

\* C5: a point without a proof is Invalid once check_deps has returned and a
\* Trusted or Suspicious point of its author at round-1 was among the gathered
\* dependencies
C5_NoProof ==
    \A id \in Known :
        (/\ Checked(id)
         /\ ~BodyOf(id).proof.some
         /\ \E d \in OwnDeps(id) : St(d) \in Valid) => St(id) = "Invalid"

\* C5 witness: peer 4's round-2 point carries no proof although its valid
\* round-1 point is known; everything it depends on is Trusted
C5_Witness ==
    /\ InWorld(NoProofWorld)
    /\ Checked(Id(NoProof4))
    /\ St(Id(NoProof4)) = "Invalid"
    /\ tasks[Id(NoProof4)].own = {1}
    /\ \A d \in DepsOf(Id(NoProof4)) : St(d) = "Trusted"

\* C6: a point is Invalid once check_deps has returned and a Trusted or
\* Suspicious dependency it awaited declares a greater anchor round than the
\* point for the Proof role or for the Trigger role
C6_Actualized ==
    \A id \in Known :
        (/\ Checked(id)
         /\ \E d \in DepsOf(id) : \E field \in Fields :
                /\ St(d) \in Valid
                /\ anchor_round(BodyOf(d), field) > anchor_round(BodyOf(id), field))
            => St(id) = "Invalid"

\* C6 witness: a round-2 point links its anchor proof to genesis although it
\* includes the leader's round-1 point; everything it depends on is Trusted
C6_Witness ==
    /\ InWorld(StaleWorld)
    /\ Checked(Id(Stale2))
    /\ St(Id(Stale2)) = "Invalid"
    /\ tasks[Id(Stale2)].wit
    /\ \A d \in DepsOf(Id(Stale2)) : St(d) = "Trusted"

\* C7: outside the genesis round, a Trusted or Suspicious point links a role
\* to itself exactly when its author is the leader of that role at its round
C7_SelfLinks ==
    \A id \in Known : \A field \in Fields :
        (id.round # GENESIS_ROUND /\ St(id) \in Valid) =>
            (anchor_link(BodyOf(id), field) = ToSelf <=> IsLeaderPoint(id, field))

\* C7 witness: the leader's self-linked point is Trusted; the non-leaders that
\* link to themselves and the leaders that do not are Invalid
C7_Witness ==
    /\ InWorld(SelfWorld)
    /\ St(Id(Honest1(1))) = "Trusted"
    /\ St(Id(Honest1(2))) = "Trusted"
    /\ St(Id(SelfTrigger2)) = "Invalid"
    /\ St(Id(SelfProof3)) = "Invalid"
    /\ St(Id(NoSelfLeader2)) = "Invalid"
    /\ St(Id(NoSelfLeader1)) = "Invalid"

\* C8: validate never panics on a point that passed verify
C8_NoPanic ==
    \A id \in Known : St(id) # "Panicked"

\* C9: whatever the interleaving of the calls for a digest, at most one task
\* is created for it, the callers that get a future back get that one, and no
\* call creates another task once it exists, resolved or not
C9_Dedup ==
    /\ \A d \in Digests :
          /\ spawned[d] <= 1
          /\ versions[d] = spawned[d]
    /\ \A c \in Callers :
          (pc[c] = "returned" /\ handle[c] # 0) => handle[c] = versions[call[c].key]

\* C9 witness: every caller has asked for the same digest, the first through
\* add_evicted_broadcast_exact, others through operations that return the
\* future; one task exists, it has resolved, and every returned future is it
C9_Witness ==
    /\ \A c \in Callers : pc[c] = "returned" /\ call[c].key = 1
    /\ handle[1] = 0
    /\ \A c \in Callers \ {1} : handle[c] = 1
    /\ futures[<<1, 1>>] = "resolved"
    /\ spawned[1] = 1

\* the point a proof is for
Proven(p) == MkId(Prev(p.round), p.author, p.proof.digest)

\* C10 as stated: no Trusted or Suspicious point is older than the point it proves
C10_MonotonicTimeAsStated ==
    \A id \in Known :
        (/\ St(id) \in Valid
         /\ BodyOf(id).proof.some
         /\ HasBody(Proven(BodyOf(id))))
            => BodyOf(Proven(BodyOf(id))).time <= BodyOf(id).time

\* C10 amended: no point that check_deps found Trusted or Suspicious is older
\* than the point it proves; check_deps answers the older proof with Invalid
C10_MonotonicTime ==
    \A id \in Known :
        (/\ Checked(id)
         /\ BodyOf(id).proof.some
         /\ HasBody(Proven(BodyOf(id)))
         /\ BodyOf(Proven(BodyOf(id))).time > BodyOf(id).time)
            => St(id) = "Invalid"

\* C10 witness: a round-2 point older than the Trusted round-1 point it proves
\* is Invalid; everything it depends on is Trusted
C10_Witness ==
    /\ InWorld(EarlyWorld)
    /\ Checked(Id(Early2))
    /\ St(Id(Early2)) = "Invalid"
    /\ BodyOf(Proven(Early2)).time > Early2.time
    /\ \A d \in DepsOf(Id(Early2)) : St(d) = "Trusted"

\* ---------------------------------------------------- phase 1: verify
Called == verdict # "none"

\* C11: verify returns NotExists exactly when the integrity check fails, also
\* for a body that is not well-formed; Invalid exactly when integrity holds
\* and the point is not well-formed or its signers are not acceptable; Ok in
\* every other case; and nothing else
C11_VerdictClasses ==
    Called =>
        /\ verdict \in {"Ok", "Invalid", "NotExists"}
        /\ (verdict = "NotExists") <=> ~probe.integrity
        /\ (verdict = "Invalid") <=>
              (probe.integrity /\ ~(is_well_formed(probe) /\ is_list_of_signers_ok(probe)))
        /\ (verdict = "Ok") <=>
              (probe.integrity /\ is_well_formed(probe) /\ is_list_of_signers_ok(probe))

\* C11 witness: a point that fails integrity and is not well-formed either
\* came back as NotExists
C11_Witness ==
    /\ verdict = "NotExists"
    /\ ~probe.integrity
    /\ ~is_well_formed(probe)

\* the committee conditions of C12, each read off the point and the schedule
FewIncludes(p) ==
    Cardinality(Keys(p.includes)) < Majority(Cardinality(PeersFor(Prev(p.round))))
IncludesOutsider(p) == \E a \in Keys(p.includes) : a \notin PeersFor(Prev(p.round))
WitnessOutsider(p) == \E a \in Keys(p.witness) : a \notin PeersFor(Prev(Prev(p.round)))
FewEvidence(p) ==
    p.proof.some /\
        Cardinality(p.proof.evidence) < MajorityOfOthers(Cardinality(PeersFor(p.round)))
EvidenceOutsider(p) == p.proof.some /\ \E a \in p.proof.evidence : a \notin PeersFor(p.round)
NoNodeCount(p) == p.proof.some /\ ~NodeCountTry(Cardinality(PeersFor(p.round)))
CommitteeFlaw(p) ==
    \/ FewIncludes(p)
    \/ IncludesOutsider(p)
    \/ WitnessOutsider(p)
    \/ FewEvidence(p)
    \/ EvidenceOutsider(p)
    \/ NoNodeCount(p)

\* C12 as stated: verify rejects as Invalid every non-genesis point with too
\* few includes, an includes or witness author outside its committee, or a
\* proof with too little evidence, a signer outside the committee or no valid
\* node count
C12_CommitteeAsStated ==
    (Called /\ probe.round # GENESIS_ROUND /\ CommitteeFlaw(probe)) => verdict = "Invalid"

\* C12 amended: verify rejects as Invalid every such point that passes the
\* integrity check
C12_Committee ==
    (Called /\ probe.round # GENESIS_ROUND /\ probe.integrity /\ CommitteeFlaw(probe))
        => verdict = "Invalid"

\* C12 witness: a well-formed point with good integrity came back Invalid for
\* a witness author outside the committee, and for nothing else
C12_Witness ==
    /\ verdict = "Invalid"
    /\ probe.integrity
    /\ is_well_formed(probe)
    /\ WitnessOutsider(probe)
    /\ ~FewIncludes(probe) /\ ~IncludesOutsider(probe)
    /\ ~FewEvidence(probe) /\ ~EvidenceOutsider(probe)

\* ------------------------------------------------ the broadcast filter
Added == last.point # NoKey
ClassOf(v) == IF v = "Ok" THEN "Verified" ELSE v

IncludeWitnessDeps(p) ==
    {MkId(Prev(p.round), a, p.includes[a]) : a \in Keys(p.includes)}
        \cup {MkId(Prev(Prev(p.round)), a, p.witness[a]) : a \in Keys(p.witness)}

LinksPass(p) ==
    /\ is_self_links_ok(p)
    /\ add_anchor_link_if_ok(p, "Proof").res = "ok"
    /\ add_anchor_link_if_ok(p, "Trigger").res = "ok"

\* C14: when validate runs on a verified point whose own round is retained,
\* whose anchor links pass the self-link and leader checks, and whose round-1
\* is no longer retained when validate asks for it, the verdict is Trusted at
\* once and no task is created for an include or witness dependency
C14_PrunedTrusted ==
    [][\A id \in Known :
          (/\ tasks[id].st \in {"none", "download"}
           /\ tasks'[id].st \notin {"none", "download"}
           /\ verify(BodyOf(id)) = "Ok"
           /\ bottom <= id.round /\ id.round <= top
           /\ LinksPass(BodyOf(id))
           /\ bottom' <= id.round /\ ~(bottom' <= Prev(id.round)))
          => /\ tasks'[id].st = "Trusted"
             /\ \A d \in (AllIds \cap IncludeWitnessDeps(BodyOf(id))) \ AnchorDeps(BodyOf(id)) :
                   tasks'[d] = tasks[d]]_vars

\* C14 witness: a round-2 point was trusted across the loss of round 1, and
\* a point it includes has no task
C14_Witness ==
    \E id \in Known :
        /\ tasks[id].via = "pruned"
        /\ St(id) = "Trusted"
        /\ bottom = id.round
        /\ \E d \in AllIds \cap IncludeWitnessDeps(BodyOf(id)) : St(d) = "none"

\* ------------------------------------------- the gate, call by call
\* the authors that have handed a verified point of the round to add, the
\* point of this call included
ValidAuthors(r) == {a \in GateAuthors : <<r, a>> \in validAt}
ValidAuthorsWith(p) ==
    ValidAuthors(p.round) \cup (IF Event(p).class = "Verified" THEN {p.author} ELSE {})

C16_InvalidRejected ==
    (Added /\ last.class # "Verified") => last.resp = "Rejected"

\* C17: add answers Accepted for every verified point of a round in
\* [local-1, local+1], local being the local round when the call starts
C17_WindowAccepted ==
    [][\A p \in GatePoints :
          (/\ add(p)
           /\ Event(p).class = "Verified"
           /\ Prev(current_dag_round) <= p.round
           /\ p.round <= current_dag_round + 1)
          => last'.resp = "Accepted"]_vars

\* the events of rounds R-1 and R the gate holds once the point is inserted
HeldAround(p) ==
    {e \in Buffered(by_round) \cup {Event(p)} : e.round \in {Prev(p.round), p.round}}

\* C18: for an add of a point of a round R above the local round L: while
\* fewer than the reliable minority of distinct authors have handed verified
\* points of R to add, the answer is TryLater and the local round stays L; the
\* add that brings their number to the reliable minority is answered
\* Accepted, sets the local round to R and sends the buffered points of R-1
\* and R
C18_Threshold ==
    [][\A p \in GatePoints :
          (add(p) /\ p.round > current_dag_round) =>
            LET m == ReliableMinority(Cardinality(PeersFor(p.round))) IN
            /\ Cardinality(ValidAuthorsWith(p)) < m =>
                  (last'.resp = "TryLater" /\ current_dag_round' = current_dag_round)
            /\ (Cardinality(ValidAuthors(p.round)) < m /\ Cardinality(ValidAuthorsWith(p)) = m) =>
                  /\ last'.resp = "Accepted"
                  /\ current_dag_round' = p.round
                  /\ HeldAround(p) \subseteq Sent(output')]_vars

\* C19 as stated: once add has seen a point of a peer at round H, every later
\* add of a point of that peer at a lower round is answered Rejected
C19_OutOfOrderAsStated ==
    [][\A p \in GatePoints :
          (add(p) /\ p.round < hi[p.author]) => last'.resp = "Rejected"]_vars

\* C19 amended: once add has seen a point of a peer at round H, every later
\* add of a point of that peer at a lower round that is above the local round
\* at that moment is answered Rejected, unless the peer was reported Unknown
\* in between
C19_OutOfOrder ==
    [][\A p \in GatePoints :
          (add(p) /\ p.round < hi[p.author] /\ p.round > current_dag_round)
              => last'.resp = "Rejected"]_vars

\* C19 witness: a verified point above the local round was rejected because
\* its author had broadcast a higher round before
C19_Witness ==
    /\ Added
    /\ last.resp = "Rejected"
    /\ last.class = "Verified"
    /\ last.point[1] > current_dag_round
    /\ last.point[1] < hi[last.point[2]]

\* the events that were held by the gate or handed to it before a step and
\* are neither held nor sent after it
Leaving(handed) == ((Buffered(by_round) \cup handed) \ Buffered(by_round')) \ Sent(output')

\* an event leaves unsent for one of three reasons: its author has broadcast
\* a higher round, the local round went past the round after it, or an event
\* with its id took its place
Excused(e) ==
    \/ hi'[e.author] > e.round
    \/ current_dag_round' > e.round + 1
    \/ \E f \in Buffered(by_round') \cup Sent(output') : SameId(f, e) /\ f # e

PointsAt(buf, r) == IF r \in GateRounds THEN buf[r].points ELSE {}
HasEntry(buf, r) == r \in GateRounds /\ buf[r].some

\* seq is Forward(r) followed by the points of pts, each once, in some order
Segment(seq, r, pts) ==
    /\ Len(seq) = 1 + Cardinality(pts)
    /\ seq[1] = Forward(r)
    /\ {seq[i] : i \in 2..Len(seq)} = pts

\* advance_round(R) at a local round that is not above R changes nothing and
\* sends nothing; otherwise the local round is R and only rounds above R stay
\* buffered, untouched
AdvanceFrame(R) ==
    IF R > current_dag_round
    THEN /\ current_dag_round' = R
         /\ \A r \in GateRounds : by_round'[r] = IF r > R THEN by_round[r] ELSE NoEntry
    ELSE /\ current_dag_round' = current_dag_round
         /\ by_round' = by_round
         /\ output' = <<>>

\* C21 as stated: advance_round(R) above the local round sends Forward(R-1), the
\* points buffered at R-1, Forward(R), the points buffered at R, in this order,
\* and leaves only rounds above R in the buffer; at or below the local round it
\* sends and removes nothing.
C21_AdvanceAsStated ==
    [][\A R \in GateRounds :
          AdvanceRound(R) =>
              /\ AdvanceFrame(R)
              /\ R > current_dag_round =>
                    \E k \in 0..Len(output') :
                        /\ Segment(SubSeq(output', 1, k), Prev(R), PointsAt(by_round, Prev(R)))
                        /\ Segment(SubSeq(output', k + 1, Len(output')), R,
                                   PointsAt(by_round, R))]_vars

\* C21: advance_round(R) above the local round sets the local round to R and
\* sends, for R-1 and then for R, Forward(round) followed by the points
\* buffered at that round if the buffer has an entry for the round, and nothing
\* for a round without an entry; afterwards only rounds above R are buffered.
\* At or below the local round it sends nothing and removes nothing.
C21_Advance ==
    [][\A R \in GateRounds :
          AdvanceRound(R) =>
              /\ AdvanceFrame(R)
              /\ R > current_dag_round =>
                    \E k \in 0..Len(output') :
                        /\ IF HasEntry(by_round, Prev(R))
                           THEN Segment(SubSeq(output', 1, k), Prev(R), by_round[Prev(R)].points)
                           ELSE k = 0
                        /\ IF HasEntry(by_round, R)
                           THEN Segment(SubSeq(output', k + 1, Len(output')), R,
                                        by_round[R].points)
                           ELSE k = Len(output')]_vars

\* the local DAG moved on to a round whose entry and whose predecessor's entry
\* both held points: both rounds were released
C21_Witness ==
    /\ last.resp = "TryLater"
    /\ current_dag_round > 1
    /\ Len(output) >= 4
    /\ output[1] = Forward(Prev(current_dag_round))
    /\ \E i \in 3..Len(output) : output[i] = Forward(current_dag_round)

\* ---------------------------------------------------------------- C22
\* how many of the oldest payloads have to go for one of `len` bytes to fit
MustEvict(seq, len) ==
    CHOOSE k \in 0..Len(seq) :
        /\ SumLen(Drain(seq, k)) + len <= PAYLOAD_BUFFER_BYTES
        /\ \A j \in 0..(k - 1) : SumLen(Drain(seq, j)) + len > PAYLOAD_BUFFER_BYTES

\* C22: add of a payload within the budget evicts the oldest payloads, as many
\* as it takes for the new one to fit and no more, and then holds the new one
\* last; a fetch(true) that follows a fetch returns none of the payloads that
\* fetch returned.
C22_EvictOldest ==
    [][/\ \A len \in PayloadLens :
            BufferAdd(len) /\ len <= PAYLOAD_BUFFER_BYTES =>
                data' = Append(Drain(data, MustEvict(data, len)), Blob(received', len))
       /\ BufferFetch(TRUE) /\ lastop.op = "fetch" =>
            /\ "engine" \notin panicked'
            /\ Sent(fetched') \cap Sent(fetched) = {}]_vars

\* ---------------------------------------------------------------- C23
\* C23: the payloads held in the input buffer add up to at most
\* PAYLOAD_BUFFER_BYTES (a payload above the budget is never taken in).
C23_Bounded == SumLen(data) <= PAYLOAD_BUFFER_BYTES

\* ---------------------------------------------------------------- C24
\* C24: fetch(false) right after a fetch returns the batch that fetch returned,
\* and fetch(false) removes nothing from the buffer: a payload leaves it only
\* in fetch(true) or in add.
C24_Replay ==
    [][/\ BufferFetch(FALSE) /\ lastop.op = "fetch" => fetched' = fetched
       /\ BufferFetch(FALSE) => data' = data
       /\ Sent(data) \ Sent(data') # {} =>
            \/ lastop'.op = "add"
            \/ lastop'.op = "fetch" /\ lastop'.only_fresh]_vars

\* a fetch(false) after a fetch returned a batch while more was buffered
C24_Witness ==
    /\ lastop = [op |-> "fetch", only_fresh |-> FALSE, after |-> "fetch"]
    /\ fetched # <<>>
    /\ Len(data) > Len(fetched)
    /\ offset_elements = Len(fetched)

\* ---------------------------------------------------------------- C25
\* C25: scan(r) on a handle of round R panics if r > R, returns round R if
\* r = R, returns round r if r < R and every round from r to R is allocated,
\* and returns None if r < R and a round from r to R has been dropped (or was
\* never built).
C25_Scan ==
    [][\A from \in Rounds : \A round \in Rounds : \A keep \in BOOLEAN :
          ChainScan(from, round, keep) =>
              scanned'.res = IF round > from THEN "PanicFuture"
                           ELSE IF \A k \in round..from : k \in alive THEN "Some"
                           ELSE "None"]_vars

\* a scan for a round that had been built, from a handle at least two rounds
\* later, returned None; another one returned a round below the handle's
C25_Witness ==
    /\ scanned.res = "None"
    /\ scanned.round \in created
    /\ scanned.from - scanned.round >= 2
    /\ Prev(scanned.from) \in alive

\* ---------------------------------------------------------------- C28
\* C28: a round below every strong handle (the callers' and those of a running
\* validate) is not allocated, and scan for it from any handle returns None;
\* a validate that awaits its dependencies holds no strong handle.
C28_NoPinning ==
    /\ \A r \in created :
          (\A k \in owned \cup Held(validating) : k > r) =>
              /\ r \notin alive
              /\ \A R \in owned : scan_from(alive, R, r) = "None"
    /\ validating.st = "await" => Held(validating) = {}

\* validate of round r+1 held rounds r+1 and r, dropped them and awaits; all
\* handles of round r and below are gone while a later round is held
C28_Witness ==
    /\ validating.st = "await"
    /\ Prev(validating.round) \in created
    /\ \A k \in owned : k > validating.round
    /\ owned # {}
    /\ alive = owned

\* ---------------------------------------------------------------- C26
\* the versions of the location that insert_exact_sign stored
LocalVersions == {d \in Digests : versions[d] # 0 /\ futures[<<d, versions[d]>>] = "local"}

\* C26: insert_exact_sign panics on a point of another round than the DAG
\* round's, and stores at most one point in a location: a second call for the
\* same author and round panics, whatever the digest of its point.
C26_OncePerLocation ==
    /\ \A c \in Callers :
          (call[c].op = "insert_exact_sign" /\ pc[c] = "returned") =>
              call[c].key \in LocalVersions
    /\ Cardinality(LocalVersions) <= 1

\* ---------------------------------------------------------------- C27
\* C27: a version stored in a location stays the one stored for its digest, and
\* its future is kept, whatever add_broadcast_exact, add_dependency_exact,
\* add_evicted_broadcast_exact, add_ill_formed_broadcast_exact, add_dependency
\* and insert_exact_sign do afterwards, for the same digest or for another.
C27_VersionsGrow ==
    [][\A d \in Digests :
          versions[d] # 0 =>
              /\ versions'[d] = versions[d]
              /\ futures'[<<d, versions[d]>>] # "absent"
              /\ spawned'[d] = spawned[d]]_vars

\* add_broadcast_exact returned twice: once for a digest that had a version
\* (a download, which it handed the body), once for another digest of the same
\* location, which is stored beside it
C27_Witness ==
    \E c1, c2, c3 \in Callers :
        /\ pc[c1] = "returned" /\ pc[c2] = "returned" /\ pc[c3] = "returned"
        /\ call[c1].op = "add_dependency_exact"
        /\ call[c2].op = "add_broadcast_exact" /\ call[c2].key = call[c1].key
        /\ call[c3].op = "add_broadcast_exact" /\ call[c3].key # call[c1].key
        /\ handle[c1] = versions[call[c1].key]
        /\ versions[call[c3].key] # 0

\* ---------------------------------------------------------------- C29
\* C29: new_point returns None when the local node leads the anchor stage
\* (Proof or Trigger) of the current round and has no prev_point, when the
\* previous round is not retained, and when there is no key pair for the round.
C29_Refuses ==
    (/\ produced.kind # "pending"
     /\ \/ (/\ AnchorStageOf(producing.round).kind \in {"Proof", "Trigger"}
             /\ AnchorStageOf(producing.round).leader = producing.local_id
             /\ ~producing.prev_point.some)
        \/ ~producing.prev_retained
        \/ ~producing.key_pair)
    => produced.kind = "None"

\* the leader of a Trigger round, with its key pair, the previous round
\* retained and enough includes, but without prev_point, got None
C29_Witness ==
    /\ produced.kind = "None"
    /\ producing.prev_retained /\ producing.key_pair
    /\ AnchorStageOf(producing.round) = [kind |-> "Trigger", leader |-> producing.local_id]
    /\ ~producing.prev_point.some
    /\ \A a \in AllPeers : producing.finished[a].point = "Trusted"

\* ---------------------------------------------------------------- C30
\* the peers whose location in the finished round holds a Trusted point that
\* the node did not refuse to sign
CanInclude == {a \in AllPeers : /\ producing.finished[a].point = "Trusted"
                                /\ producing.finished[a].signed # "refused"}
EnoughIncludes == Cardinality(CanInclude) >= Majority(Cardinality(PeersFor(Prev(producing.round))))
PrevPointFits ==
    producing.prev_point.some =>
        /\ producing.local_id \in CanInclude
        /\ producing.finished[producing.local_id].digest = producing.prev_point.digest
        /\ Cardinality(producing.prev_point.evidence)
              >= MajorityOfOthers(Cardinality(PeersFor(producing.round)))

\* (a), (b) and (c) of a returned point
ReturnedPointSound ==
    produced.kind = "point" =>
        /\ \A a \in Keys(produced.includes) :
              /\ a \in CanInclude
              /\ produced.includes[a] = producing.finished[a].digest
        /\ Cardinality(Keys(produced.includes))
              >= Majority(Cardinality(PeersFor(Prev(producing.round))))
        /\ produced.proof = producing.prev_point
        /\ PrevPointFits
        /\ producing.prev_point.some =>
              produced.includes[producing.local_id] = producing.prev_point.digest

\* C30 as stated: a returned point has only Trusted, not refused points of
\* the previous round in its includes, a majority of them, and its own
\* previous point with enough evidence if prev_point is given; when the
\* majority or the own previous point cannot be had, new_point panics.
C30_IncludesAsStated ==
    /\ ReturnedPointSound
    /\ (produced.kind # "pending" /\ ~(EnoughIncludes /\ PrevPointFits))
          => produced.kind = "panic"

\* C30: as above, but when the majority or the own previous point cannot be
\* had, new_point panics unless it returns None for one of the reasons of C29
\* (previous round not retained, no key pair, leader without prev_point),
\* which it looks at first.
C30_Includes ==
    /\ ReturnedPointSound
    /\ (produced.kind # "pending" /\ ~(EnoughIncludes /\ PrevPointFits))
          => \/ produced.kind = "panic"
             \/ /\ produced.kind = "None"
                /\ \/ ~producing.prev_retained
                   \/ ~producing.key_pair
                   \/ (/\ AnchorStageOf(producing.round).kind \in {"Proof", "Trigger"}
                       /\ AnchorStageOf(producing.round).leader = producing.local_id
                       /\ ~producing.prev_point.some)

\* a point was returned with prev_point given, while a location of the
\* finished round held a point that is not Trusted, which is not in the
\* includes: the three others are
C30_Witness ==
    /\ produced.kind = "point"
    /\ producing.prev_point.some
    /\ \E a \in AllPeers :
          /\ producing.finished[a].point \in {"Suspicious", "Invalid", "NotExists"}
          /\ produced.includes[a] = 0
    /\ Cardinality(Keys(produced.includes)) = 3

\* ---------------------------------------------------------------- C38
\* C38: after every add and every fetch that returns, data_bytes is the sum of
\* the lengths of the payloads held in data, and offset_elements is at most
\* their number.
C38_Accounting ==
    panicked = {} =>
        /\ data_bytes = SumLen(data)
        /\ offset_elements <= Len(data)

\* ---------------------------------------------------------------- C39
\* C39: while every payload added is within PAYLOAD_BUFFER_BYTES, no add and
\* no fetch(true) or fetch(false) panics: neither the consumer task nor the
\* engine's call fails a checked subtraction or a drain.
C39_NoPanicOnValidUse == panicked = {}

\* ---------------------------------------------------------------- C40
\* C40: once no further payload is added, repeated fetch(true) calls reach a
\* point from which the buffer is empty and every batch returned is empty;
\* until then each payload held is returned in one batch only, in the order
\* of insertion.
C40_Progress ==
    /\ <>[](data = <<>> /\ fetched = <<>> /\ panicked = {})
    /\ [][BufferFetch(TRUE) /\ lastop.op = "fetch" /\ panicked' = {} =>
            /\ Sent(fetched') \cap Sent(fetched) = {}
            /\ \A i \in 1..Len(fetched') : fetched'[i] = data[offset_elements + i]]_vars

\* ---------------------------------------------------------------- C32
Members == {peer \in OverlayPeers : Contains(entries, peer)}

C37_NoStranded ==
    (\A c \in Callers : ~loaded[c].some) =>
        \A r \in GateRounds : r <= current_dag_round => ~by_round[r].some

\* ---------------------------------------------------------------- C36
\* C36: the verdict check_deps has returned for a point is the verdict its
\* loop gives for every order in which the dependencies resolved so far may
\* have completed, and a verdict other than Invalid is returned only when no
\* dependency is pending.
C36_OrderIndependent ==
    \A id \in AllIds :
        (tasks[id].via = "deps" /\ tasks[id].st \in Resolved) =>
            LET p == BodyOf(id)
                done == {d \in DepsOf(id) : tasks[d].st \in Resolved}
            IN  /\ tasks[id].st # "Invalid" => done = DepsOf(id)
                /\ \A order \in Orders(done) : check_deps(p, order, FALSE) = tasks[id].st

\* check_deps has returned Invalid for a point after two or more of its
\* dependencies resolved, one of them an equivocation of its author, while
\* another dependency is pending
C36_Witness ==
    \E id \in AllIds :
        /\ tasks[id].via = "deps" /\ tasks[id].st = "Invalid"
        /\ Cardinality({d \in DepsOf(id) : tasks[d].st \in Resolved}) >= 2
        /\ \E d \in DepsOf(id) : tasks[d].st \notin Resolved
        /\ \E d \in DepsOf(id) : DepEquivocates(BodyOf(id), d, tasks[d].st)

\* ---------------------------------------------------------------- C31
\* the point the anchor_proof link of p resolves to, among the points `valid`
AnchorProofOf(p, valid) == {q \in valid : Id(q) = anchor_id(p, "Proof")}

\* C31: the time of a point new_point returns is not below the time of its
\* own previous point, when one is supplied, nor below the time of the point
\* its anchor_proof link resolves to, Direct or Indirect, through includes
\* or witness, with or without a prev_point.
C31_TimeDominance ==
    produced.kind = "point" =>
        LET p == produced.point IN
        /\ producing.prev_point.some =>
              \A q \in producing.includes : q.author = p.author => q.time <= p.time
        /\ p.anchor_proof # ToSelf =>
              \A q \in AnchorProofOf(p, producing.valid) : q.time <= p.time

\* ---------------------------------------------------------------- C33
\* the link is the one through the point q of the round `at`
IsLinkThrough(l, q, at, through, link_field) ==
    /\ l.through = through
    /\ l.peer = q.author
    /\ (l.kind = "Direct") = (q.round = at /\ anchor_link(q, link_field) = ToSelf)
    /\ l.kind = "Indirect" => l.to = anchor_id(q, link_field)

\* C33: for a role the local node leads this round link_from_includes gives
\* ToSelf; for any other role it never does, and gives the link through an
\* include of the greatest anchor round for the role: Direct(Includes(author))
\* exactly when that include is at round-1 with a ToSelf link of its own,
\* otherwise Indirect to that include's anchor id through Includes(author).
C33_LinkFromIncludes ==
    produced.kind = "point" =>
        \A link_field \in {"Proof", "Trigger"} :
            LET l == produced.from_includes[link_field] IN
            IF LeadsRole(producing.local_id, producing.round, link_field)
            THEN l = ToSelf
            ELSE /\ l.kind \in {"Direct", "Indirect"}
                 /\ \E q \in producing.includes :
                       /\ \A o \in producing.includes :
                             anchor_round(o, link_field) <= anchor_round(q, link_field)
                       /\ IsLinkThrough(l, q, Prev(producing.round), "Includes", link_field)

\* a point is returned whose includes differ in the anchor round they tell
\* for the proof, and its proof link from the includes is Indirect to the
\* leader's point
C33_Witness ==
    /\ produced.kind = "point"
    /\ ~LeadsRole(producing.local_id, producing.round, "Proof")
    /\ \E q \in producing.includes : \E o \in producing.includes :
          anchor_round(o, "Proof") < anchor_round(q, "Proof")
    /\ produced.from_includes["Proof"].kind = "Indirect"
    /\ produced.from_includes["Proof"].to.round > GENESIS_ROUND

\* ---------------------------------------------------------------- C34
\* the anchor round a link tells in a point of the round
LinkRound(l, round) ==
    CASE l.kind = "ToSelf" -> round
      [] l.kind = "Direct" -> IF l.through = "Includes" THEN Prev(round) ELSE Prev(Prev(round))
      [] OTHER -> l.to.round

DepsAmong(p, valid) ==
    {q \in valid : \/ q.round = Prev(p.round) /\ p.includes[q.author] = q.digest
                   \/ q.round = Prev(Prev(p.round)) /\ p.witness[q.author] = q.digest
                   \/ Id(q) \in AnchorDeps(p)}

\* the target of the link is a leader's point of the matching stage, as
\* Verifier::add_anchor_link_if_ok wants it
AnchorRoleOk(p, link_field) ==
    LET point_id == anchor_id(p, link_field)
        stage == AnchorStageOf(point_id.round)
    IN  \/ point_id.round = GENESIS_ROUND
        \/ stage.kind = link_field /\ stage.leader = point_id.author

\* C35: a point new_point returns tells for each role an anchor round that
\* is not below the one any of its includes or witness points tells, its
\* links keep the self-link rule of the round's stage, its time is not below
\* the time of the previous point it proves, and a verifier that holds its
\* dependencies as Trusted does not find it Invalid: verify accepts it and
\* no turn of check_deps over a dependency invalidates it.
C35_VerifierAgrees ==
    produced.kind = "point" =>
        LET p == produced.point
            deps == DepsAmong(p, producing.valid)
        IN  /\ \A q \in producing.includes \cup producing.witness : ~NotActualized(p, q)
            /\ is_self_links_ok(p)
            /\ \A q \in producing.includes :
                  (p.proof.some /\ q.author = p.author) => is_proof_ok(p, q)
            /\ verify(p) = "Ok"
            /\ AnchorRoleOk(p, "Proof") /\ AnchorRoleOk(p, "Trigger")
            /\ \A q \in deps : ~(ProofTurn(p, q) \/ NotActualized(p, q) \/ PathAstray(p, q))

====
